---------------------------- MODULE Spec2Model ----------------------------
(***************************************************************************)
(* Nuke-ONNX: the ONNXModelManager (model handle), the ONNXRuntimeOp       *)
(* operator with its processed-image cache, and the row fetches (engine)   *)
(* the host issues from several worker threads.                            *)
(***************************************************************************)
EXTENDS Integers, Sequences, FiniteSets, TLC

(***************************************************************************)
(* Bounds of the model.                                                    *)
(***************************************************************************)
NumThreads == 2

Threads == 1..NumThreads

(***************************************************************************)
(* The inference engine (ONNX Runtime) as seen through its interface:      *)
(* what a model file yields when a session is created on it and its        *)
(* inputs and outputs are listed.                                          *)
(*   creates   Ort::Session construction succeeds                          *)
(*   inputs    the graph's inputs, in engine order                         *)
(*   outputs   the graph's outputs, in engine order                        *)
(*   inFail    index (1-based) of the input whose type info throws, 0 none *)
(*   outFail   index (1-based) of the output whose type info throws        *)
(***************************************************************************)
Paths == {"", "missing.onnx", "depth.onnx", "rgb.onnx", "pair.onnx",
          "noinput.onnx", "seqin.onnx", "seqout.onnx", "mixed.onnx"}

Slot(n, s) == [name |-> n, shape |-> s]

ModelFile(path) ==
  CASE path = "depth.onnx" ->
         [creates |-> TRUE,
          inputs  |-> << Slot("img", <<1, 3, -1, -1>>) >>,
          outputs |-> << Slot("depth", <<1, 1, -1, -1>>) >>,
          inFail |-> 0, outFail |-> 0]
    [] path = "rgb.onnx" ->
         [creates |-> TRUE,
          inputs  |-> << Slot("img", <<1, 3, -1, -1>>) >>,
          outputs |-> << Slot("rgb", <<3, 2, 2>>) >>,
          inFail |-> 0, outFail |-> 0]
    [] path = "pair.onnx" ->
         [creates |-> TRUE,
          inputs  |-> << Slot("img", <<1, 3, 2, 2>>), Slot("aux", <<1, 3, 2, 2>>) >>,
          outputs |-> << Slot("out", <<1, 3, 2, 2>>) >>,
          inFail |-> 0, outFail |-> 0]
    [] path = "mixed.onnx" ->
         [creates |-> TRUE,
          inputs  |-> << Slot("vol", <<1, 3, -1, -1, 2>>), Slot("chw", <<3, -1, -1>>),
                         Slot("k", << >>) >>,
          outputs |-> << Slot("out", <<1, 1, -1, -1>>) >>,
          inFail |-> 0, outFail |-> 0]
    [] path = "many.onnx" ->
         [creates |-> TRUE,
          inputs  |-> [i \in 1..11 |->
                         Slot(<<"in1", "in2", "in3", "in4", "in5", "in6", "in7", "in8",
                                "in9", "in10", "in11">>[i], <<1, 3, 2, 2>>)],
          outputs |-> << Slot("out", <<1, 1, 2, 2>>) >>,
          inFail |-> 0, outFail |-> 0]
    [] path = "noinput.onnx" ->
         [creates |-> TRUE,
          inputs  |-> << >>,
          outputs |-> << Slot("const", <<2, 2>>) >>,
          inFail |-> 0, outFail |-> 0]
    [] path = "seqin.onnx" ->
         [creates |-> TRUE,
          inputs  |-> << Slot("img", <<1, 3, -1, -1>>), Slot("seq", << >>) >>,
          outputs |-> << Slot("out", <<1, 1, -1, -1>>) >>,
          inFail |-> 2, outFail |-> 0]
    [] path = "seqout.onnx" ->
         [creates |-> TRUE,
          inputs  |-> << Slot("img", <<1, 3, -1, -1>>) >>,
          outputs |-> << Slot("seq", << >>) >>,
          inFail |-> 0, outFail |-> 1]
    [] OTHER ->
         [creates |-> FALSE, inputs |-> << >>, outputs |-> << >>,
          inFail |-> 0, outFail |-> 0]

(***************************************************************************)
(* ErrorHandling.h: an exception is its class and its what() text, the     *)
(* text kept as the sequence of the pieces it was concatenated from.       *)
(***************************************************************************)
NoExc == [kind |-> "none", what |-> << >>]

ModelLoadException(msg) ==
  [kind |-> "ModelLoadException", what |-> <<"Model Load Error: ">> \o msg]

InferenceException(msg) ==
  [kind |-> "InferenceException", what |-> <<"Inference Error: ">> \o msg]

ConfigurationException(msg) ==
  [kind |-> "ConfigurationException", what |-> <<"Configuration Error: ">> \o msg]

PreprocessException(msg) ==
  [kind |-> "PreprocessException", what |-> <<"Preprocessing Error: ">> \o msg]

InvalidArgumentException(msg) ==
  [kind |-> "InvalidArgumentException", what |-> <<"Invalid Argument: ">> \o msg]

\* An exception of the engine (Ort::Exception), a std::exception that is
\* not an ONNXPluginError.
OrtException(msg) == [kind |-> "OrtException", what |-> msg]

\* The outcome of undefined behaviour (an index past the end of a vector).
Undefined == [kind |-> "undefined", what |-> << >>]

ONNXPluginError ==
  {"ModelLoadException", "InferenceException", "ConfigurationException",
   "PreprocessException", "InvalidArgumentException"}

(***************************************************************************)
(* ONNXModelManager.  A handle is a record of the class's fields; session  *)
(* is "none" for a null unique_ptr, else the path the session was created  *)
(* on.                                                                     *)
(***************************************************************************)
NoSession == "none"

ONNXModelManager ==
  [modelLoaded |-> FALSE, session |-> NoSession,
   inputNames |-> << >>, outputNames |-> << >>,
   inputDims |-> << >>, outputDims |-> << >>]

unload_keepsMetadata(h) ==
  [h EXCEPT !.session = NoSession, !.modelLoaded = FALSE]

unload(h) ==
  [h EXCEPT !.session = NoSession,
            !.inputNames = << >>, !.outputNames = << >>,
            !.inputDims = << >>, !.outputDims = << >>,
            !.modelLoaded = FALSE]

\* extractModelInfo on the session of file f: the handle afterwards, and
\* whether an Ort::Exception left the function part-way.
extractModelInfo(h, f) ==
  LET nIn  == Len(f.inputs)
      nOut == Len(f.outputs)
      cleared == [h EXCEPT !.inputNames = << >>, !.outputNames = << >>,
                           !.inputDims = << >>, !.outputDims = << >>]
      inNames(k) == [i \in 1..nIn |-> IF i <= k THEN f.inputs[i].name ELSE ""]
      inDims(k)  == [i \in 1..nIn |-> IF i <= k THEN f.inputs[i].shape ELSE << >>]
      outNames(k) == [i \in 1..nOut |-> IF i <= k THEN f.outputs[i].name ELSE ""]
      outDims(k)  == [i \in 1..nOut |-> IF i <= k THEN f.outputs[i].shape ELSE << >>]
  IN  IF f.inFail > 0
        THEN [h |-> [cleared EXCEPT !.inputNames = inNames(f.inFail),
                                    !.inputDims = inDims(f.inFail - 1)],
              threw |-> TRUE]
      ELSE IF f.outFail > 0
        THEN [h |-> [cleared EXCEPT !.inputNames = inNames(nIn),
                                    !.inputDims = inDims(nIn),
                                    !.outputNames = outNames(f.outFail),
                                    !.outputDims = outDims(f.outFail - 1)],
              threw |-> TRUE]
      ELSE [h |-> [cleared EXCEPT !.inputNames = inNames(nIn),
                                  !.inputDims = inDims(nIn),
                                  !.outputNames = outNames(nOut),
                                  !.outputDims = outDims(nOut)],
            threw |-> FALSE]

\* load(): from extractModelInfo() on, e being what it left.
load_extracted(e) ==
  IF e.threw
    THEN [h |-> e.h,
          exc |-> ModelLoadException(<<"ONNX Runtime error: ", "type info">>)]
    ELSE [h |-> [e.h EXCEPT !.modelLoaded = TRUE], exc |-> NoExc]

\* load(): the try block, on the handle h2 the first statements left and
\* the model file f at modelPath.
load_session(h2, modelPath, useGPU, cuda, f) ==
  IF useGPU /\ ~cuda
    THEN [h |-> h2,
          exc |-> ModelLoadException(<<"ONNX Runtime error: ", "no CUDA">>)]
  ELSE IF ~f.creates
    THEN [h |-> h2,
          exc |-> ModelLoadException(<<"ONNX Runtime error: ", "no session">>)]
  ELSE load_extracted(extractModelInfo([h2 EXCEPT !.session = modelPath], f))

\* load(modelPath, useGPU): the handle afterwards and the exception thrown
\* (NoExc when load returns).  cuda: the CUDA provider can be appended.
load(h, modelPath, useGPU, cuda) ==
  load_session([(IF h.modelLoaded THEN unload(h) ELSE h) EXCEPT !.modelLoaded = FALSE],
               modelPath, useGPU, cuda, ModelFile(modelPath))

isLoaded(h) == h.modelLoaded

getInputCount(h) == Len(h.inputNames)

getOutputCount(h) == Len(h.outputNames)

(***************************************************************************)
(* What Ort::Session::Run can do on one call: throw an Ort::Exception,     *)
(* return no usable output tensor, or return output 0 with its actual      *)
(* shape and that many floats.                                             *)
(***************************************************************************)
RECURSIVE ElementCount(_)
ElementCount(shape) ==
  IF shape = << >> THEN 1 ELSE Head(shape) * ElementCount(Tail(shape))

OutShapes == {<<1, 1, 2, 2>>, <<3, 1, 2>>, <<2, 2>>, <<1, 1, 0, 2>>}

FillValues == {1, 2}

Tensor(shape, v) == [i \in 1..ElementCount(shape) |-> v]

RunResults ==
  {[kind |-> "throw", shape |-> << >>, data |-> << >>],
   [kind |-> "notensor", shape |-> << >>, data |-> << >>]}
  \cup {[kind |-> "ok", shape |-> s, data |-> Tensor(s, v)] :
           s \in OutShapes, v \in FillValues}

\* What a run path hands to Session::Run: the input values (buffer and
\* shape) in order, and the output names requested.
Fed(inputTensors, inputShapes, n) ==
  [i \in 1..n |-> [data |-> inputTensors[i], shape |-> inputShapes[i]]]

NotRun(h, e) ==
  [h |-> h, exc |-> e, out |-> << >>, ran |-> FALSE, bound |-> << >>,
   fed |-> << >>, outputs |-> << >>]

RunOutcome_keepsDeclaredShape(h, r, bound) ==
  IF r.kind = "throw"
    THEN [h |-> h, exc |-> OrtException(<<"run failed">>), out |-> << >>,
          ran |-> TRUE, bound |-> bound]
  ELSE IF r.kind = "notensor"
    THEN [h |-> h,
          exc |-> InferenceException(<<"Invalid output tensor from ONNX Runtime">>),
          out |-> << >>, ran |-> TRUE, bound |-> bound]
  ELSE [h |-> h, exc |-> NoExc, out |-> r.data, ran |-> TRUE, bound |-> bound]

\* The tail of both run paths, once Session::Run was called with outcome r.
\* bound: the declared input names handed to Session::Run, in order.
RunOutcome(h, r, bound) ==
  IF r.kind = "throw"
    THEN [h |-> h, exc |-> OrtException(<<"run failed">>), out |-> << >>,
          ran |-> TRUE, bound |-> bound]
  ELSE IF r.kind = "notensor"
    THEN [h |-> h,
          exc |-> InferenceException(<<"Invalid output tensor from ONNX Runtime">>),
          out |-> << >>, ran |-> TRUE, bound |-> bound]
  ELSE [h |-> [h EXCEPT !.outputDims[1] = r.shape], exc |-> NoExc,
        out |-> r.data, ran |-> TRUE, bound |-> bound]

\* runInference(inputTensor, inputShape, outputTensor) against the engine
\* outcome r: the handle afterwards, the exception thrown, the output
\* buffer, whether Session::Run was invoked and with what.  Indexing the
\* first declared input or output name of a handle that declares none is
\* undefined behaviour.
runInference(h, inputTensor, inputShape, r) ==
  IF ~h.modelLoaded \/ h.session = NoSession
    THEN NotRun(h, InferenceException(<<"Model not loaded">>))
  ELSE IF h.inputNames = << >> \/ h.outputNames = << >>
    THEN NotRun(h, Undefined)
  ELSE RunOutcome(h, r, <<h.inputNames[1]>>)
         @@ [fed |-> Fed(<<inputTensor>>, <<inputShape>>, 1),
             outputs |-> <<h.outputNames[1]>>]

BoundName_positional(h, inputNames, i) == h.inputNames[i]

\* The declared input name bound to the i-th supplied input (1-based).
BoundName(h, inputNames, i) ==
  IF inputNames[i] # "" /\ \E k \in 1..Len(h.inputNames) : h.inputNames[k] = inputNames[i]
    THEN inputNames[i]
    ELSE h.inputNames[i]

\* runInferenceMultiInput(inputTensors, inputShapes, inputNames, outputTensor).
\* The loop runs over the supplied names and indexes the buffers and the
\* shapes with the same index: past their end when there are more names
\* than buffers, which is undefined behaviour.
runInferenceMultiInput(h, inputTensors, inputShapes, inputNames, r) ==
  IF ~h.modelLoaded \/ h.session = NoSession
    THEN NotRun(h, InferenceException(<<"Model not loaded">>))
  ELSE IF inputTensors = << >> \/ Len(inputTensors) # Len(inputShapes)
    THEN NotRun(h, InvalidArgumentException(<<"Mismatch between input tensors and shapes">>))
  ELSE IF Len(inputNames) > Len(h.inputNames)
    THEN NotRun(h, InvalidArgumentException(<<"Too many inputs provided for the model">>))
  ELSE IF Len(inputNames) > Len(inputTensors) \/ h.outputNames = << >>
    THEN NotRun(h, Undefined)
  ELSE RunOutcome(h, r, [i \in 1..Len(inputNames) |-> BoundName(h, inputNames, i)])
         @@ [fed |-> Fed(inputTensors, inputShapes, Len(inputNames)),
             outputs |-> <<h.outputNames[1]>>]

(***************************************************************************)
(* ONNXInferenceProcessor.  modelManager is the attached handle pointer    *)
(* (FALSE: null); the handle itself is passed to the operations as h.      *)
(***************************************************************************)
InputTensorInfo == [data |-> << >>, shape |-> << >>, name |-> "", valid |-> FALSE]

ONNXInferenceProcessor ==
  [modelManager |-> FALSE, inputTensors |-> << >>,
   width |-> 0, height |-> 0, channels |-> 0,
   outputWidth |-> 0, outputHeight |-> 0, outputChannels |-> 0,
   isSingleChannel |-> TRUE]

setModelManager(p) == [p EXCEPT !.modelManager = TRUE]

setInputDimensions(p, width, height, channels) ==
  IF width <= 0 \/ height <= 0 \/ channels <= 0
    THEN [p |-> p, exc |-> ConfigurationException(<<"Invalid input dimensions">>)]
    ELSE [p |-> [p EXCEPT !.width = width, !.height = height, !.channels = channels],
          exc |-> NoExc]

PreparedShape_defaultBelowRank4(p, h, i) ==
  IF i <= Len(h.inputDims) /\ Len(h.inputDims[i]) >= 4
    THEN [h.inputDims[i] EXCEPT ![3] = p.height, ![4] = p.width]
    ELSE <<1, p.channels, p.height, p.width>>

\* The shape prepareInputs gives slot i (1-based) of the handle h.
PreparedShape(p, h, i) ==
  IF i <= Len(h.inputDims) /\ h.inputDims[i] # << >>
    THEN IF Len(h.inputDims[i]) >= 4
           THEN [h.inputDims[i] EXCEPT ![3] = p.height, ![4] = p.width]
           ELSE h.inputDims[i]
    ELSE <<1, p.channels, p.height, p.width>>

prepareInputs_checksCountFirst(p, h, inputCount) ==
  IF inputCount <= 0
    THEN [p |-> p, exc |-> InvalidArgumentException(<<"Input count must be positive">>)]
  ELSE IF ~p.modelManager
    THEN [p |-> p, exc |-> ConfigurationException(<<"Model manager is not set">>)]
  ELSE IF ~isLoaded(h)
    THEN [p |-> p,
          exc |-> ConfigurationException(<<"No model has been loaded in the manager">>)]
  ELSE [p |-> [p EXCEPT !.inputTensors =
                 [i \in 1..inputCount |->
                    [data  |-> << >>,
                     shape |-> PreparedShape(p, h, i),
                     name  |-> IF i <= Len(h.inputNames) THEN h.inputNames[i] ELSE "",
                     valid |-> FALSE]]],
        exc |-> NoExc]

prepareInputs_keepsOldSlots(p, h, inputCount) ==
  IF ~p.modelManager
    THEN [p |-> p, exc |-> ConfigurationException(<<"Model manager is not set">>)]
  ELSE IF ~isLoaded(h)
    THEN [p |-> p,
          exc |-> ConfigurationException(<<"No model has been loaded in the manager">>)]
  ELSE IF inputCount <= 0
    THEN [p |-> p, exc |-> InvalidArgumentException(<<"Input count must be positive">>)]
  ELSE [p |-> [p EXCEPT !.inputTensors =
                 [i \in 1..inputCount |->
                    [data  |-> IF i <= Len(p.inputTensors)
                                 THEN p.inputTensors[i].data ELSE << >>,
                     shape |-> PreparedShape(p, h, i),
                     name  |-> IF i <= Len(h.inputNames) THEN h.inputNames[i] ELSE "",
                     valid |-> i <= Len(p.inputTensors) /\ p.inputTensors[i].valid]]],
        exc |-> NoExc]

prepareInputs(p, h, inputCount) ==
  IF ~p.modelManager
    THEN [p |-> p, exc |-> ConfigurationException(<<"Model manager is not set">>)]
  ELSE IF ~isLoaded(h)
    THEN [p |-> p,
          exc |-> ConfigurationException(<<"No model has been loaded in the manager">>)]
  ELSE IF inputCount <= 0
    THEN [p |-> p, exc |-> InvalidArgumentException(<<"Input count must be positive">>)]
  ELSE [p |-> [p EXCEPT !.inputTensors =
                 [i \in 1..inputCount |->
                    [data  |-> << >>,
                     shape |-> PreparedShape(p, h, i),
                     name  |-> IF i <= Len(h.inputNames) THEN h.inputNames[i] ELSE "",
                     valid |-> FALSE]]],
        exc |-> NoExc]

setInputTensorData_acceptsEmpty(p, inputIndex, data) ==
  IF inputIndex < 0 \/ inputIndex >= Len(p.inputTensors)
    THEN [p |-> p, exc |-> InvalidArgumentException(<<"Input index out of range">>)]
  ELSE [p |-> [p EXCEPT !.inputTensors[inputIndex + 1].data = data,
                        !.inputTensors[inputIndex + 1].valid = TRUE],
        exc |-> NoExc]

\* setInputTensorData(inputIndex, data); inputIndex counts from 0.
setInputTensorData(p, inputIndex, data) ==
  IF inputIndex < 0 \/ inputIndex >= Len(p.inputTensors)
    THEN [p |-> p, exc |-> InvalidArgumentException(<<"Input index out of range">>)]
  ELSE IF data = << >>
    THEN [p |-> p, exc |-> InvalidArgumentException(<<"Input tensor data is empty">>)]
  ELSE [p |-> [p EXCEPT !.inputTensors[inputIndex + 1].data = data,
                        !.inputTensors[inputIndex + 1].valid = TRUE],
        exc |-> NoExc]

RECURSIVE ValidSlots_descending(_, _)
ValidSlots_descending(tensors, i) ==
  IF i > Len(tensors) THEN << >>
  ELSE IF tensors[i].valid THEN ValidSlots_descending(tensors, i + 1) \o <<i>>
  ELSE ValidSlots_descending(tensors, i + 1)

\* The indices of the valid slots, in increasing order.
RECURSIVE ValidSlots(_, _)
ValidSlots(tensors, i) ==
  IF i > Len(tensors) THEN << >>
  ELSE IF tensors[i].valid THEN <<i>> \o ValidSlots(tensors, i + 1)
  ELSE ValidSlots(tensors, i + 1)

DerivedGeometry_channelsLast(p, outputDims) ==
  LET d == IF outputDims # << >> THEN outputDims[1] ELSE << >>
      g == IF Len(d) >= 4 THEN [c |-> d[2], h |-> d[3], w |-> d[4]]
           ELSE IF Len(d) = 3 THEN [c |-> d[3], h |-> d[1], w |-> d[2]]
           ELSE IF Len(d) = 2 THEN [c |-> 1, h |-> d[1], w |-> d[2]]
           ELSE [c |-> 1, h |-> p.height, w |-> p.width]
  IN  [p EXCEPT !.outputWidth = g.w, !.outputHeight = g.h,
                !.outputChannels = g.c, !.isSingleChannel = (g.c = 1)]

DerivedGeometry_keepsPrevious(p, outputDims) ==
  LET d == IF outputDims # << >> THEN outputDims[1] ELSE << >>
      g == IF Len(d) = 4 THEN [c |-> d[2], h |-> d[3], w |-> d[4]]
           ELSE IF Len(d) = 3 THEN [c |-> d[1], h |-> d[2], w |-> d[3]]
           ELSE IF Len(d) = 2 THEN [c |-> 1, h |-> d[1], w |-> d[2]]
           ELSE IF p.outputChannels # 0
             THEN [c |-> p.outputChannels, h |-> p.outputHeight, w |-> p.outputWidth]
           ELSE [c |-> 1, h |-> p.height, w |-> p.width]
  IN  [p EXCEPT !.outputWidth = g.w, !.outputHeight = g.h,
                !.outputChannels = g.c, !.isSingleChannel = (g.c = 1)]

\* Output geometry from the handle's output shape after a run.
DerivedGeometry(p, outputDims) ==
  LET d == IF outputDims # << >> THEN outputDims[1] ELSE << >>
      g == IF Len(d) >= 4 THEN [c |-> d[2], h |-> d[3], w |-> d[4]]
           ELSE IF Len(d) = 3 THEN [c |-> d[1], h |-> d[2], w |-> d[3]]
           ELSE IF Len(d) = 2 THEN [c |-> 1, h |-> d[1], w |-> d[2]]
           ELSE [c |-> 1, h |-> p.height, w |-> p.width]
  IN  [p EXCEPT !.outputWidth = g.w, !.outputHeight = g.h,
                !.outputChannels = g.c, !.isSingleChannel = (g.c = 1)]

\* A variant that sets the default output geometry before the handle is
\* called, so that a failed run leaves it behind.
processorRunInference_ran_defaultsFirst(p, multi, res) ==
  LET q == [p EXCEPT !.outputWidth = p.width, !.outputHeight = p.height,
                     !.outputChannels = 1]
  IN  IF res.exc = Undefined
        THEN [p |-> p, h |-> res.h, exc |-> Undefined, out |-> << >>, ran |-> res.ran,
              path |-> IF multi THEN "multi" ELSE "single",
              bound |-> << >>, raised |-> res.exc]
      ELSE IF res.exc # NoExc
        THEN [p |-> q, h |-> res.h,
              exc |-> InferenceException(
                        <<IF multi THEN "Multi-input inference failed: "
                                   ELSE "Single-input inference failed: ">>
                        \o res.exc.what),
              out |-> << >>, ran |-> res.ran,
              path |-> IF multi THEN "multi" ELSE "single",
              bound |-> << >>, raised |-> res.exc]
        ELSE [p |-> DerivedGeometry(p, res.h.outputDims), h |-> res.h,
              exc |-> NoExc, out |-> res.out, ran |-> res.ran,
              path |-> IF multi THEN "multi" ELSE "single",
              bound |-> res.bound, raised |-> NoExc]

\* runInference(outputTensor) once the handle's entry point returned or
\* threw res; multi: it was runInferenceMultiInput.  raised: what the handle
\* threw.  Undefined behaviour in the handle is undefined behaviour here.
processorRunInference_ran(p, multi, res) ==
  IF res.exc = Undefined
    THEN [p |-> p, h |-> res.h, exc |-> Undefined, out |-> << >>, ran |-> res.ran,
          path |-> IF multi THEN "multi" ELSE "single",
          bound |-> << >>, raised |-> res.exc]
  ELSE IF res.exc # NoExc
    THEN [p |-> p, h |-> res.h,
          exc |-> InferenceException(
                    <<IF multi THEN "Multi-input inference failed: "
                               ELSE "Single-input inference failed: ">>
                    \o res.exc.what),
          out |-> << >>, ran |-> res.ran,
          path |-> IF multi THEN "multi" ELSE "single",
          bound |-> << >>, raised |-> res.exc]
    ELSE [p |-> DerivedGeometry(p, res.h.outputDims), h |-> res.h,
          exc |-> NoExc, out |-> res.out, ran |-> res.ran,
          path |-> IF multi THEN "multi" ELSE "single",
          bound |-> res.bound, raised |-> NoExc]

processorRunInference_runsWithoutInputs(p, h, outputTensor, r) ==
  LET fail(e, o) == [p |-> p, h |-> h, exc |-> e, out |-> o, ran |-> FALSE,
                     path |-> "none", bound |-> << >>, raised |-> NoExc,
                     passed |-> [tensors |-> << >>, shapes |-> << >>, names |-> << >>]]
      idx == ValidSlots(p.inputTensors, 1)
      inputTensors == [k \in 1..Len(idx) |-> p.inputTensors[idx[k]].data]
      inputShapes  == [k \in 1..Len(idx) |-> p.inputTensors[idx[k]].shape]
      inputNames   == [k \in 1..Len(idx) |-> p.inputTensors[idx[k]].name]
  IN  IF ~p.modelManager
        THEN fail(ConfigurationException(<<"Model manager is not set">>), outputTensor)
      ELSE IF ~isLoaded(h)
        THEN fail(ConfigurationException(<<"No model has been loaded in the manager">>),
                  outputTensor)
      ELSE IF \E k \in 1..Len(idx) : inputTensors[k] = << >>
        THEN fail(ConfigurationException(<<"Input tensor has empty data despite being marked valid">>),
                  outputTensor)
      ELSE IF \E k \in 1..Len(idx) : inputShapes[k] = << >>
        THEN fail(ConfigurationException(<<"Input tensor has empty shape despite being marked valid">>),
                  outputTensor)
      ELSE IF idx = << >>
        THEN processorRunInference_ran(p, FALSE, runInference(h, << >>, << >>, r))
             @@ [passed |-> [tensors |-> << << >> >>, shapes |-> << << >> >>,
                             names |-> << >>]]
      ELSE IF Len(idx) > 1
        THEN processorRunInference_ran(p, TRUE,
               runInferenceMultiInput(h, inputTensors, inputShapes, inputNames, r))
             @@ [passed |-> [tensors |-> inputTensors, shapes |-> inputShapes,
                             names |-> inputNames]]
      ELSE processorRunInference_ran(p, FALSE,
             runInference(h, inputTensors[1], inputShapes[1], r))
             @@ [passed |-> [tensors |-> <<inputTensors[1]>>,
                             shapes |-> <<inputShapes[1]>>, names |-> << >>]]

\* ONNXInferenceProcessor::runInference(outputTensor) with the engine
\* outcome r.  out: the caller's buffer afterwards (outputTensor before).
\* path: which entry point of the handle was called.
processorRunInference(p, h, outputTensor, r) ==
  LET fail(e, o) == [p |-> p, h |-> h, exc |-> e, out |-> o, ran |-> FALSE,
                     path |-> "none", bound |-> << >>, raised |-> NoExc,
                     passed |-> [tensors |-> << >>, shapes |-> << >>, names |-> << >>]]
      idx == ValidSlots(p.inputTensors, 1)
      inputTensors == [k \in 1..Len(idx) |-> p.inputTensors[idx[k]].data]
      inputShapes  == [k \in 1..Len(idx) |-> p.inputTensors[idx[k]].shape]
      inputNames   == [k \in 1..Len(idx) |-> p.inputTensors[idx[k]].name]
  IN  IF ~p.modelManager
        THEN fail(ConfigurationException(<<"Model manager is not set">>), outputTensor)
      ELSE IF ~isLoaded(h)
        THEN fail(ConfigurationException(<<"No model has been loaded in the manager">>),
                  outputTensor)
      ELSE IF \E k \in 1..Len(idx) : inputTensors[k] = << >>
        THEN fail(ConfigurationException(<<"Input tensor has empty data despite being marked valid">>),
                  outputTensor)
      ELSE IF \E k \in 1..Len(idx) : inputShapes[k] = << >>
        THEN fail(ConfigurationException(<<"Input tensor has empty shape despite being marked valid">>),
                  outputTensor)
      ELSE IF idx = << >>
        THEN fail(ConfigurationException(<<"No valid input tensors available for inference">>),
                  outputTensor)
      ELSE IF Len(idx) > 1
        THEN processorRunInference_ran(p, TRUE,
               runInferenceMultiInput(h, inputTensors, inputShapes, inputNames, r))
             @@ [passed |-> [tensors |-> inputTensors, shapes |-> inputShapes,
                             names |-> inputNames]]
      ELSE processorRunInference_ran(p, FALSE,
             runInference(h, inputTensors[1], inputShapes[1], r))
             @@ [passed |-> [tensors |-> <<inputTensors[1]>>,
                             shapes |-> <<inputShapes[1]>>, names |-> << >>]]

(***************************************************************************)
(* TensorProcessor.  A float is an integer: FloatMax and FloatLowest stand *)
(* for numeric_limits<float>::max() and lowest(), beyond every finite      *)
(* sample of the model, PosInf and NegInf for the infinities beyond them,  *)
(* and NaN for a not-a-number, which the code tests with isnan before it   *)
(* compares.  The finite values of the model are far enough from FloatMax  *)
(* for their sums and differences to be exact.                             *)
(***************************************************************************)
FloatMax == 1000

FloatLowest == -1000

PosInf == 2000

NegInf == -2000

NaN == 3000

IsFinite(v) == v \notin {NaN, PosInf, NegInf}

Min(a, b) == IF a <= b THEN a ELSE b

Max(a, b) == IF a >= b THEN a ELSE b

SetMin(S) == CHOOSE m \in S : \A x \in S : m <= x

SetMax(S) == CHOOSE m \in S : \A x \in S : m >= x

\* The finite samples of tensorData at the 0-based indices from..to-1.
FiniteIn(tensorData, from, to) ==
  {tensorData[i + 1] : i \in {k \in from..(to - 1) : IsFinite(tensorData[k + 1])}}

findMinMax(tensorData) ==
  IF tensorData = << >> THEN [min |-> 0, max |-> 1]
  ELSE LET fin == FiniteIn(tensorData, 0, Len(tensorData))
           mn  == SetMin(fin \cup {FloatMax})
           mx  == SetMax(fin \cup {FloatLowest})
       IN  IF mn = mx THEN [min |-> 0, max |-> 1] ELSE [min |-> mn, max |-> mx]

findMinMaxMultiChannel(tensorData, channelCount, width, height) ==
  IF tensorData = << >> \/ width <= 0 \/ height <= 0 \/ channelCount <= 0
    THEN [min |-> 0, max |-> 1]
  ELSE LET pointsPerChannel == width * height
           size == Len(tensorData)
           planes == {c \in 0..(channelCount - 1) : c * pointsPerChannel < size}
           fin == UNION {FiniteIn(tensorData, c * pointsPerChannel,
                                  Min(c * pointsPerChannel + pointsPerChannel, size)) :
                         c \in planes}
           mn  == SetMin(fin \cup {FloatMax})
           mx  == SetMax(fin \cup {FloatLowest})
       IN  IF mn = FloatMax \/ mx = FloatLowest THEN [min |-> 0, max |-> 1]
           ELSE IF mn = mx THEN [min |-> mn, max |-> mn + 1]
           ELSE [min |-> mn, max |-> mx]

\* A float result that need not be whole: the fraction num/den in lowest
\* terms, den > 0.
RECURSIVE GCD(_, _)
GCD(a, b) == IF b = 0 THEN a ELSE GCD(b, a % b)

Frac(num, den) ==
  LET g == GCD(IF num < 0 THEN -num ELSE num, den)
  IN  [num |-> num \div g, den |-> den \div g]

normalize_clampsInfinite(value, min, max) ==
  IF value = NaN THEN Frac(1, 2)
  ELSE IF min >= max \/ ~IsFinite(min) \/ ~IsFinite(max) THEN Frac(1, 2)
  ELSE Frac(Max(min, Min(max, value)) - min, max - min)

\* TensorProcessor::normalize.
normalize(value, min, max) ==
  IF ~IsFinite(value) THEN Frac(1, 2)
  ELSE IF min >= max \/ ~IsFinite(min) \/ ~IsFinite(max) THEN Frac(1, 2)
  ELSE Frac(Max(min, Min(max, value)) - min, max - min)

\* numeric_limits<int>::max(): a * b and a + b of non-negative ints overflow
\* beyond it, which is undefined behaviour.
IntMax == 2147483647

TimesOverflows(a, b) == b # 0 /\ a > IntMax \div b

PlusOverflows(a, b) == a > IntMax - b

\* getTensorValue from "int dataIndex" on; the coordinates are in range.
\* read: the 0-based index of the element read, -1 when none is read.
getTensorValue_at(tensorData, dataIndex, doNormalize, minValue, maxValue) ==
  IF dataIndex >= 0 /\ dataIndex < Len(tensorData)
    THEN LET value == tensorData[dataIndex + 1]
         IN  [exc |-> NoExc, read |-> dataIndex,
              value |-> IF ~IsFinite(value) THEN Frac(0, 1)
                        ELSE IF doNormalize THEN normalize(value, minValue, maxValue)
                        ELSE Frac(value, 1)]
    ELSE [exc |-> NoExc, read |-> -1, value |-> Frac(0, 1)]

\* TensorProcessor::getTensorValue.  The products and the sum are computed
\* in int; the multi-channel sum is computed in size_t and converted to
\* int, which makes a sum beyond IntMax negative.
getTensorValue(tensorData, x, y, channelIdx, width, height, isSingleChannel, doNormalize, minValue, maxValue) ==
  LET zero == [exc |-> NoExc, read |-> -1, value |-> Frac(0, 1)]
      ub   == [exc |-> Undefined, read |-> -1, value |-> Frac(0, 1)]
  IN  IF tensorData = << >> \/ width <= 0 \/ height <= 0 THEN zero
      ELSE IF x < 0 \/ x >= width \/ y < 0 \/ y >= height \/ channelIdx < 0
        THEN zero
      ELSE IF isSingleChannel
        THEN IF TimesOverflows(y, width) THEN ub
             ELSE IF PlusOverflows(y * width, x) THEN ub
             ELSE getTensorValue_at(tensorData, y * width + x,
                                    doNormalize, minValue, maxValue)
      ELSE IF TimesOverflows(channelIdx, height) THEN ub
      ELSE IF TimesOverflows(channelIdx * height, width) THEN ub
      ELSE LET offset == channelIdx * height * width
           IN  IF offset >= Len(tensorData) THEN zero
               ELSE IF TimesOverflows(y, width) THEN ub
               ELSE IF PlusOverflows(y * width, x) THEN zero
               ELSE IF PlusOverflows(offset, y * width + x) THEN zero
               ELSE getTensorValue_at(tensorData, offset + y * width + x,
                                      doNormalize, minValue, maxValue)

(***************************************************************************)
(* ONNXRuntimeOp: the operator's fields.                                   *)
(***************************************************************************)
maximum_inputs == 10

ONNXRuntimeOp_validCache ==
  [modelPath |-> "", useGPU |-> FALSE, normalize |-> FALSE,
   isSingleChannel |-> TRUE, outputChannelCount |-> 1,
   minValue |-> 0, maxValue |-> 1,
   dimensionsSet |-> FALSE, imgWidth |-> 0, imgHeight |-> 0, imgChannels |-> 0,
   outputWidth |-> 0, outputHeight |-> 0,
   cacheValid |-> TRUE, processingDone |-> FALSE, processedData |-> << >>,
   activeInputs |-> 1]

ONNXRuntimeOp ==
  [modelPath |-> "", useGPU |-> FALSE, normalize |-> FALSE,
   isSingleChannel |-> TRUE, outputChannelCount |-> 1,
   minValue |-> 0, maxValue |-> 1,
   dimensionsSet |-> FALSE, imgWidth |-> 0, imgHeight |-> 0, imgChannels |-> 0,
   outputWidth |-> 0, outputHeight |-> 0,
   cacheValid |-> FALSE, processingDone |-> FALSE, processedData |-> << >>,
   activeInputs |-> 1]

updateActiveInputs_uncapped(o, h) ==
  IF ~isLoaded(h) THEN [o EXCEPT !.activeInputs = 1]
  ELSE LET n == getInputCount(h)
       IN  [o EXCEPT !.activeInputs = IF n < 1 THEN 1 ELSE n]

updateActiveInputs(o, h) ==
  IF ~isLoaded(h) THEN [o EXCEPT !.activeInputs = 1]
  ELSE LET n == Min(getInputCount(h), maximum_inputs)
       IN  [o EXCEPT !.activeInputs = IF n < 1 THEN 1 ELSE n]

\* ONNXModelManager::getOutputDimensions: ok is the returned bool.
getOutputDimensions(h) ==
  LET none == [ok |-> FALSE, width |-> 0, height |-> 0, channels |-> 0]
  IN  IF ~h.modelLoaded \/ h.outputDims = << >> THEN none
      ELSE LET d == h.outputDims[1]
           IN  IF Len(d) = 4
                 THEN [ok |-> TRUE, channels |-> d[2], height |-> d[3], width |-> d[4]]
               ELSE IF Len(d) = 3
                 THEN [ok |-> TRUE, channels |-> d[1], height |-> d[2], width |-> d[3]]
               ELSE none

\* loadModel(): the statements after the input count check, g being what
\* getOutputDimensions returned.
loadModel_dimensions(o1, h, g) ==
  [o |-> [updateActiveInputs(
            IF g.ok
              THEN [o1 EXCEPT !.outputWidth = g.width,
                              !.outputHeight = g.height,
                              !.outputChannelCount = g.channels,
                              !.isSingleChannel = (g.channels = 1)]
              ELSE [o1 EXCEPT !.outputWidth = Max(o1.imgWidth, 0),
                              !.outputHeight = Max(o1.imgHeight, 0),
                              !.outputChannelCount = 1,
                              !.isSingleChannel = TRUE],
            h)
          EXCEPT !.cacheValid = FALSE, !.processingDone = FALSE],
   h |-> h, exc |-> NoExc, errors |-> 0]

\* loadModel(): the try block from the return of load(), l being the
\* handle load() left and what it threw.
loadModel_loaded(o1, l) ==
  IF l.exc # NoExc
    THEN [o |-> o1, h |-> l.h, exc |-> l.exc, errors |-> 1]
  ELSE IF getInputCount(l.h) <= 0
    THEN [o |-> o1, h |-> unload(l.h),
          exc |-> ModelLoadException(<<"Invalid model: No inputs found">>),
          errors |-> 1]
  ELSE loadModel_dimensions(o1, l.h, getOutputDimensions(l.h))

\* loadModel(), o1 being the operator with _processedData cleared.
loadModel_path(o1, h) ==
  IF o1.modelPath = ""
    THEN [o |-> o1, h |-> h,
          exc |-> ConfigurationException(<<"Model path is empty">>),
          errors |-> 0]
    ELSE loadModel_loaded(o1, load(h, o1.modelPath, o1.useGPU, FALSE))

\* loadModel(): the operator and the handle afterwards, the exception it
\* throws to its caller, and the number of error() reports it made.
loadModel(o, h) == loadModel_path([o EXCEPT !.processedData = << >>], h)

\* updateDimensions(); input0 is input(0) # nullptr, f the format of input 0.
updateDimensions(o, input0, f) ==
  IF o.outputWidth <= 0 \/ o.outputHeight <= 0 THEN o
  ELSE IF o.outputWidth = o.imgWidth /\ o.outputHeight = o.imgHeight
    THEN [o EXCEPT !.dimensionsSet = TRUE]
  ELSE LET resize(q) == [q EXCEPT !.cacheValid = FALSE, !.processingDone = FALSE,
                                  !.dimensionsSet = TRUE]
       IN  IF o.imgWidth <= 0 \/ o.imgHeight <= 0
             THEN IF ~input0 THEN o
                  ELSE LET o1 == [o EXCEPT !.imgWidth = Max(1, f.w),
                                           !.imgHeight = Max(1, f.h)]
                       IN  IF o1.imgWidth <= 1 \/ o1.imgHeight <= 1 THEN o1
                           ELSE resize(o1)
             ELSE resize(o)

findMinMaxValues(o) ==
  LET b == IF o.processedData = << >> THEN [min |-> 0, max |-> 1]
           ELSE IF o.isSingleChannel THEN findMinMax(o.processedData)
           ELSE findMinMaxMultiChannel(o.processedData, o.outputChannelCount,
                                       o.outputWidth, o.outputHeight)
  IN  [o EXCEPT !.minValue = b.min, !.maxValue = b.max]

(***************************************************************************)
(* The host (Nuke) as the operator sees it.                                *)
(*   Formats   what input0().format() can report (width, height)           *)
(*   Rows      the rows y the host fetches                                 *)
(***************************************************************************)
Formats == {[w |-> 2, h |-> 2], [w |-> 0, h |-> 0]}

Rows == {0, 2}

(***************************************************************************)
(* Utils::tileToNCHWTensor.  A tile is its channel set, its box, the rows  *)
(* whose pointer is null, and its pixels: pixel[chan][row][column].        *)
(* tensor is the vector as the caller hands it over: resize keeps the      *)
(* elements it has and adds zeros.                                         *)
(***************************************************************************)
Tile(channels, box, nullRows, pixel) ==
  [channels |-> channels, box |-> box, nullRows |-> nullRows, pixel |-> pixel]

\* Utils::extractTile of the operator's input: the format's box, Mask_RGB;
\* the image is black.
extractTile(width, height) ==
  Tile({"Chan_Red", "Chan_Green", "Chan_Blue"},
       [x |-> 0, y |-> 0, r |-> width, t |-> height], {},
       [chan \in {"Chan_Red", "Chan_Green", "Chan_Blue"} |->
          [row \in 0..(height - 1) |-> [column \in 0..(width - 1) |-> 0]]])

tileToNCHWTensor_blueFirst(tile, tensor, width, height, channels) ==
  IF width <= 0 \/ height <= 0 \/ channels <= 0
    THEN [exc |-> PreprocessException(<<"Invalid dimensions for tensor conversion">>),
          tensor |-> tensor]
  ELSE LET chan(c) == <<"Chan_Blue", "Chan_Green", "Chan_Red", "Chan_Alpha">>[c + 1]
           xOffset == tile.box.x
           yOffset == tile.box.y
           resized(k) == IF k <= Len(tensor) THEN tensor[k] ELSE 0
       IN  [exc |-> NoExc,
            tensor |->
              [k \in 1..(channels * height * width) |->
                 LET c == (k - 1) \div (height * width)
                     h == ((k - 1) % (height * width)) \div width
                     w == (k - 1) % width
                 IN  IF c > 3 THEN resized(k)
                     ELSE IF chan(c) \notin tile.channels THEN 0
                     ELSE IF h + yOffset \in tile.nullRows THEN resized(k)
                     ELSE tile.pixel[chan(c)][h + yOffset][w + xOffset]]]

tileToNCHWTensor(tile, tensor, width, height, channels) ==
  IF width <= 0 \/ height <= 0 \/ channels <= 0
    THEN [exc |-> PreprocessException(<<"Invalid dimensions for tensor conversion">>),
          tensor |-> tensor]
  ELSE LET chan(c) == <<"Chan_Red", "Chan_Green", "Chan_Blue", "Chan_Alpha">>[c + 1]
           xOffset == tile.box.x
           yOffset == tile.box.y
           resized(k) == IF k <= Len(tensor) THEN tensor[k] ELSE 0
       IN  [exc |-> NoExc,
            tensor |->
              [k \in 1..(channels * height * width) |->
                 LET c == (k - 1) \div (height * width)
                     h == ((k - 1) % (height * width)) \div width
                     w == (k - 1) % width
                 IN  IF c > 3 THEN resized(k)
                     ELSE IF chan(c) \notin tile.channels THEN 0
                     ELSE IF h + yOffset \in tile.nullRows THEN resized(k)
                     ELSE tile.pixel[chan(c)][h + yOffset][w + xOffset]]]

(***************************************************************************)
(* Utils::processTensorDataToRow.  A channel is its enumerator (chan) and  *)
(* its name, the parts between the dots (<< >>: getName returns null).  A  *)
(* row is, per channel, the floats at the positions x..r-1; inputRow holds *)
(* zeros for a channel the input does not carry.                           *)
(***************************************************************************)
getChannelComponentIndex_firstDot(name) ==
  IF Len(name) < 2 THEN -1
  ELSE LET component == name[2]
       IN  IF component \in {"red", "r", "x"} THEN 0
           ELSE IF component \in {"green", "g", "y"} THEN 1
           ELSE IF component \in {"blue", "b", "z"} THEN 2
           ELSE IF component \in {"alpha", "a", "w"} THEN 3
           ELSE -1

getChannelComponentIndex(name) ==
  IF Len(name) < 2 THEN -1
  ELSE LET component == name[Len(name)]
       IN  IF component \in {"red", "r", "x"} THEN 0
           ELSE IF component \in {"green", "g", "y"} THEN 1
           ELSE IF component \in {"blue", "b", "z"} THEN 2
           ELSE IF component \in {"alpha", "a", "w"} THEN 3
           ELSE -1

MappedPlane_copiesUnresolved(z, channelCount, isSingleChannel) ==
  LET tensor(k) == [how |-> "tensor", plane |-> k]
      clear     == [how |-> "clear", plane |-> -1]
      input     == [how |-> "input", plane |-> -1]
      index     == IF z.chan = "Chan_Red" THEN 0
                   ELSE IF z.chan = "Chan_Green" THEN 1
                   ELSE IF z.chan = "Chan_Blue" THEN 2
                   ELSE IF z.chan = "Chan_Alpha" THEN 3
                   ELSE getChannelComponentIndex(z.name)
  IN  IF isSingleChannel /\ z.chan \in {"Chan_Green", "Chan_Blue"} THEN clear
      ELSE IF isSingleChannel /\ z.chan = "Chan_Alpha" THEN input
      ELSE IF index >= 0 /\ index < channelCount
        THEN tensor(IF isSingleChannel THEN 0 ELSE index)
      ELSE input

\* What the loop over the requested channels does with channel z: fill it
\* from a tensor plane, clear it, or copy it from the input row.
MappedPlane(z, channelCount, isSingleChannel) ==
  LET tensor(k) == [how |-> "tensor", plane |-> k]
      clear     == [how |-> "clear", plane |-> -1]
      input     == [how |-> "input", plane |-> -1]
  IN  IF z.chan \notin {"Chan_Red", "Chan_Green", "Chan_Blue", "Chan_Alpha"}
        THEN LET componentIndex == getChannelComponentIndex(z.name)
             IN  IF componentIndex >= 0 /\ componentIndex < channelCount
                   THEN tensor(IF isSingleChannel THEN 0 ELSE componentIndex)
                   ELSE clear
      ELSE IF isSingleChannel
        THEN IF z.chan = "Chan_Red" THEN tensor(0)
             ELSE IF z.chan \in {"Chan_Green", "Chan_Blue"} THEN clear
             ELSE input
      ELSE LET outChannel ==
                 IF z.chan = "Chan_Red" /\ channelCount > 0 THEN 0
                 ELSE IF z.chan = "Chan_Green" /\ channelCount > 1 THEN 1
                 ELSE IF z.chan = "Chan_Blue" /\ channelCount > 2 THEN 2
                 ELSE IF z.chan = "Chan_Alpha" /\ channelCount > 3 THEN 3
                 ELSE -1
           IN  IF outChannel >= 0 /\ outChannel < channelCount
                 THEN tensor(outChannel) ELSE input

processTensorDataToRow_mapsEveryRow(tensorData, y, x, r, channels, row, inputRow, outputWidth, outputHeight, channelCount, isSingleChannel, normalize_, minValue, maxValue) ==
  LET endX == Min(r, outputWidth)
      m(z) == MappedPlane(z, channelCount, isSingleChannel)
      value(z, i) == getTensorValue(tensorData, i, y, m(z).plane, outputWidth,
                                    outputHeight, isSingleChannel, normalize_,
                                    minValue, maxValue)
      calls == {c \in channels \X (x..(endX - 1)) : m(c[1]).how = "tensor"}
  IN  [exc |-> IF \E c \in calls : value(c[1], c[2]).exc # NoExc
                 THEN Undefined ELSE NoExc,
       row |-> [z \in channels |->
                  [i \in x..(r - 1) |->
                     IF i >= endX THEN row[z][i]
                     ELSE IF m(z).how = "tensor" THEN value(z, i).value
                     ELSE IF m(z).how = "clear" THEN Frac(0, 1)
                     ELSE inputRow[z][i]]],
       calls |-> calls]

\* row: the output row as the caller handed it over.  calls: the
\* (channel, position) pairs getTensorValue was called for.
processTensorDataToRow(tensorData, y, x, r, channels, row, inputRow, outputWidth, outputHeight, channelCount, isSingleChannel, normalize_, minValue, maxValue) ==
  LET endX == Min(r, outputWidth)
      m(z) == MappedPlane(z, channelCount, isSingleChannel)
      value(z, i) == getTensorValue(tensorData, i, y, m(z).plane, outputWidth,
                                    outputHeight, isSingleChannel, normalize_,
                                    minValue, maxValue)
      calls == {c \in channels \X (x..(endX - 1)) : m(c[1]).how = "tensor"}
  IN  IF y < 0 \/ y >= outputHeight
        THEN [exc |-> NoExc,
              row |-> [z \in channels |-> [i \in x..(r - 1) |-> inputRow[z][i]]],
              calls |-> {}]
        ELSE [exc |-> IF \E c \in calls : value(c[1], c[2]).exc # NoExc
                        THEN Undefined ELSE NoExc,
              row |-> [z \in channels |->
                         [i \in x..(r - 1) |->
                            IF i >= endX THEN row[z][i]
                            ELSE IF m(z).how = "tensor" THEN value(z, i).value
                            ELSE IF m(z).how = "clear" THEN Frac(0, 1)
                            ELSE inputRow[z][i]]],
              calls |-> calls]

(***************************************************************************)
(* cacheAndProcessImage(), in two parts: up to the last                    *)
(* setInputTensorData, and from _processedData.clear() on.                 *)
(*   conn[i]   input(i) # nullptr, i from 0                                *)
(*   preFail   the input (from 1) whose preprocessImage throws, 0: none    *)
(***************************************************************************)
RECURSIVE preprocessInputs(_, _, _, _, _)
preprocessInputs(o, p, i, conn, preFail) ==
  IF i >= o.activeInputs THEN [p |-> p, exc |-> NoExc]
  ELSE IF ~conn[i]
    THEN IF i = 0
           THEN [p |-> p,
                 exc |-> ConfigurationException(
                           <<"Primary input (input 0) became disconnected unexpectedly">>)]
           ELSE preprocessInputs(o,
                  IF i < Len(p.inputTensors)
                    THEN [p EXCEPT !.inputTensors[i + 1].valid = FALSE] ELSE p,
                  i + 1, conn, preFail)
  ELSE IF preFail = i + 1
    THEN [p |-> p,
          exc |-> PreprocessException(<<"Error during image preprocessing: ", "tile">>)]
  ELSE LET tile == extractTile(o.imgWidth, o.imgHeight)
           d == setInputTensorData(p, i,
                  tileToNCHWTensor(tile, << >>, o.imgWidth, o.imgHeight, 3).tensor)
       IN  IF d.exc # NoExc THEN d
           ELSE preprocessInputs(o, d.p, i + 1, conn, preFail)

cacheAndProcessImage_inputs(o, h, p, conn, f, preFail) ==
  IF ~isLoaded(h)
    THEN [o |-> o, p |-> p,
          exc |-> ConfigurationException(
                    <<"Attempted to process image but no model is loaded">>)]
  ELSE IF ~conn[0]
    THEN [o |-> o, p |-> p,
          exc |-> ConfigurationException(<<"Primary input (input 0) is not connected">>)]
  ELSE LET o1 == [o EXCEPT !.imgWidth = f.w, !.imgHeight = f.h, !.imgChannels = 3]
       IN  IF o1.imgWidth <= 0 \/ o1.imgHeight <= 0
             THEN [o |-> o1, p |-> p,
                   exc |-> ConfigurationException(
                             <<"Invalid input dimensions from Nuke format">>)]
           ELSE LET d == setInputDimensions(p, o1.imgWidth, o1.imgHeight, o1.imgChannels)
                    q == prepareInputs(d.p, h, o1.activeInputs)
                IN  IF d.exc # NoExc THEN [o |-> o1, p |-> d.p, exc |-> d.exc]
                    ELSE IF q.exc # NoExc THEN [o |-> o1, p |-> q.p, exc |-> q.exc]
                    ELSE [o |-> o1] @@ preprocessInputs(o1, q.p, 0, conn, preFail)

\* cacheAndProcessImage() from the return of runInference, res being what
\* the processor's runInference left and threw, o1 the operator before it.
cacheAndProcessImage_ran(o1, res) ==
  IF res.exc # NoExc
    THEN [o |-> [o1 EXCEPT !.processedData = res.out], h |-> res.h, p |-> res.p,
          exc |-> res.exc, ran |-> res.ran]
  ELSE IF res.out = << >>
    THEN [o |-> [o1 EXCEPT !.processedData = res.out], h |-> res.h, p |-> res.p,
          exc |-> InferenceException(
                    <<"Inference completed but resulted in empty output data">>),
          ran |-> res.ran]
  ELSE [o |-> [o1 EXCEPT !.processedData = res.out,
                         !.outputWidth = res.p.outputWidth,
                         !.outputHeight = res.p.outputHeight,
                         !.outputChannelCount = res.p.outputChannels,
                         !.isSingleChannel = res.p.isSingleChannel],
        h |-> res.h, p |-> res.p, exc |-> NoExc, ran |-> res.ran]

cacheAndProcessImage_run(o, h, p, r) ==
  cacheAndProcessImage_ran([o EXCEPT !.processedData = << >>],
                           processorRunInference(p, h, << >>, r))

(***************************************************************************)
(* State.                                                                  *)
(***************************************************************************)
VARIABLES
  modelManager,        \* the ONNXModelManager object
  inferenceProcessor,  \* the ONNXInferenceProcessor object
  op,                  \* the ONNXRuntimeOp fields
  cacheLock,           \* _cacheLock: 0 when free, else the thread holding it
  input0,              \* input(0) # nullptr
  aborted,             \* the host's aborted() flag
  fetch,               \* per worker thread: its engine() call
  cycle,               \* history: what happened since the last invalidating event
  lastEvent,           \* history: what the last step handed to the host
  lastCall             \* history: the last direct call on the handle

vars == <<modelManager, inferenceProcessor, op, cacheLock, input0, aborted,
          fetch, cycle, lastEvent, lastCall>>

opVars == <<inferenceProcessor, op, cacheLock, input0, aborted, fetch, cycle,
            lastEvent>>

\* A call on the handle: its name and arguments, the exception it threw and
\* the handle it was made on.
Call(op_, arg, exc, before) ==
  [op |-> op_, arg |-> arg, exc |-> exc, before |-> before]

NoArg == << >>

\* A worker thread's engine() call: where it is, its arguments and locals.
\*   pc       "idle" (not in engine), "wait" (at the Guard), "inputs", "run",
\*            "commit" (inside the critical section), "post" (after it),
\*            "map" (before processTensorDataToRow)
\*   filled   history: this call found the cache invalid and fills it
\*   reports  history: the error() reports this call made
\*   stale    history: an invalidating event happened during this call
IdleFetch ==
  [pc |-> "idle", y |-> 0, processing_succeeded |-> FALSE,
   filled |-> FALSE, reports |-> 0, stale |-> FALSE]

\* The cycle since the last invalidating event (or since construction).
\*   clean      no engine() call was in flight when the cycle began
\*   invalid    the cache was invalid when the cycle began
\*   runs       Session::Run invocations in the cycle, by any call
\* and, of the calls that entered engine() within the cycle:
\*   fill       the fill: "none", "running", "failed", "ok"
\*   refills    fills begun after the first
\*   out        the buffer the fill's inference returned
\*   reports    error() reports made
\*   reads      the buffers handed to processTensorDataToRow
NewCycle ==
  [clean |-> TRUE, invalid |-> ~ONNXRuntimeOp.cacheValid, runs |-> 0, fill |-> "none",
   refills |-> 0, out |-> << >>, reports |-> 0, reads |-> {}]

GhostCap == 2

Inc(n) == IF n < GhostCap THEN n + 1 ELSE n

\* What a step hands to the host: a row (name is how engine() returned,
\* row what it holds: "input", "erased" or "tensor"), or the exception a
\* callback let escape and the error() reports it made.  A step that hands
\* over none of these leaves NoEvent.
NoEvent == [name |-> "none", exc |-> "none", errors |-> 0, row |-> "none"]

Event(name, exc, errors) ==
  IF exc = NoExc /\ errors = 0 THEN NoEvent
  ELSE [name |-> name, exc |-> exc.kind, errors |-> errors, row |-> "none"]

RowEvent(how, row) == [name |-> how, exc |-> "none", errors |-> 0, row |-> row]

Init ==
  /\ modelManager = ONNXModelManager
  /\ inferenceProcessor = setModelManager(ONNXInferenceProcessor)
  /\ op = ONNXRuntimeOp
  /\ cacheLock = 0
  /\ input0 \in BOOLEAN
  /\ aborted = FALSE
  /\ fetch = [t \in Threads |-> IdleFetch]
  /\ cycle = NewCycle
  /\ lastEvent = NoEvent
  /\ lastCall = Call("construct", NoArg, NoExc, ONNXModelManager)

(***************************************************************************)
(* engine(y, x, r, channels, row) on worker thread t, one action per       *)
(* stretch of the function between two points where other threads can see  *)
(* it or be seen by it.                                                    *)
(***************************************************************************)
\* The history of the cycle is kept for the calls that entered within it.
InCycle(t, c) == IF fetch[t].stale THEN cycle ELSE c

\* The row both early returns produce: input0().get(...) or row.erase(...).
PassThrough == IF input0 THEN "input" ELSE "erased"

Returned(t, how, row) ==
  /\ fetch' = [fetch EXCEPT ![t] = IdleFetch]
  /\ lastEvent' = RowEvent(how, row)

EngineEnter_ignoresAbort(t, y) ==
  /\ fetch[t].pc = "idle"
  /\ IF ~isLoaded(modelManager)
       THEN /\ Returned(t, "bypass", PassThrough)
            /\ UNCHANGED cycle
       ELSE /\ fetch' = [fetch EXCEPT ![t] = [IdleFetch EXCEPT !.pc = "wait", !.y = y]]
            /\ lastEvent' = NoEvent
            /\ UNCHANGED cycle
  /\ UNCHANGED <<modelManager, inferenceProcessor, op, cacheLock, input0,
                 aborted, lastCall>>

\* Entry: the unloaded/aborted test.
EngineEnter(t, y) ==
  /\ fetch[t].pc = "idle"
  /\ IF ~isLoaded(modelManager) \/ aborted
       THEN /\ Returned(t, "bypass", PassThrough)
            /\ UNCHANGED cycle
       ELSE /\ fetch' = [fetch EXCEPT ![t] = [IdleFetch EXCEPT !.pc = "wait", !.y = y]]
            /\ lastEvent' = NoEvent
            /\ UNCHANGED cycle
  /\ UNCHANGED <<modelManager, inferenceProcessor, op, cacheLock, input0,
                 aborted, lastCall>>

EngineLock_skipsCheck(t) ==
  /\ fetch[t].pc = "wait"
  /\ cacheLock = 0
  /\ cacheLock' = t
  /\ fetch' = [fetch EXCEPT ![t].pc = "inputs", ![t].filled = TRUE]
  /\ cycle' = InCycle(t, [cycle EXCEPT !.fill = "running",
                            !.refills = IF cycle.fill = "none" THEN @ ELSE Inc(@)])
  /\ lastEvent' = NoEvent
  /\ UNCHANGED <<modelManager, inferenceProcessor, op, input0, aborted, lastCall>>

\* Guard guard(_cacheLock) and the test of _cacheValid under the lock; a
\* valid cache ends the critical section at once.
EngineLock(t) ==
  /\ fetch[t].pc = "wait"
  /\ cacheLock = 0
  /\ IF ~op.cacheValid
       THEN /\ cacheLock' = t
            /\ fetch' = [fetch EXCEPT ![t].pc = "inputs", ![t].filled = TRUE]
            /\ cycle' = InCycle(t, [cycle EXCEPT !.fill = "running",
                                      !.refills = IF cycle.fill = "none" THEN @ ELSE Inc(@)])
       ELSE /\ fetch' = [fetch EXCEPT ![t].pc = "post"]
            /\ UNCHANGED <<cacheLock, cycle>>
  /\ lastEvent' = NoEvent
  /\ UNCHANGED <<modelManager, inferenceProcessor, op, input0, aborted, lastCall>>

FillFailed_reportsTwice(f) ==
  [f EXCEPT !.pc = "commit", !.processing_succeeded = FALSE, !.reports = Inc(Inc(@))]

\* The catch clauses of engine(): one error() report, processing failed.
FillFailed(f) ==
  [f EXCEPT !.pc = "commit", !.processing_succeeded = FALSE, !.reports = Inc(@)]

\* cacheAndProcessImage() up to the inputs' tensors.
EngineInputs(t, conn1, fmt, preFail) ==
  /\ fetch[t].pc = "inputs"
  /\ LET conn == [i \in 0..(maximum_inputs - 1) |->
                    IF i = 0 THEN input0 ELSE IF i = 1 THEN conn1 ELSE FALSE]
         res  == cacheAndProcessImage_inputs(op, modelManager, inferenceProcessor,
                                             conn, fmt, preFail)
         f    == FillFailed(fetch[t])
     IN  /\ op' = res.o
         /\ inferenceProcessor' = res.p
         /\ IF res.exc # NoExc
              THEN /\ fetch' = [fetch EXCEPT ![t] = f]
                   /\ cycle' = InCycle(t, [cycle EXCEPT !.fill = "failed",
                                             !.reports = @ + f.reports - fetch[t].reports])
              ELSE /\ fetch' = [fetch EXCEPT ![t].pc = "run"]
                   /\ UNCHANGED cycle
  /\ lastEvent' = NoEvent
  /\ UNCHANGED <<modelManager, cacheLock, input0, aborted, lastCall>>

FillBounds_always(o) == findMinMaxValues(o)

\* engine(): after a successful cacheAndProcessImage(), still inside the
\* critical section.
FillBounds(o) == IF o.normalize THEN findMinMaxValues(o) ELSE o

\* engine() from the return of cacheAndProcessImage(), res being what its
\* second part left and threw: findMinMaxValues(), or a catch clause.
EngineRan(t, res) ==
  /\ fetch[t].pc = "run"
  /\ modelManager' = res.h
  /\ inferenceProcessor' = res.p
  /\ IF res.exc # NoExc
       THEN /\ op' = res.o
            /\ fetch' = [fetch EXCEPT ![t] = FillFailed(fetch[t])]
            /\ cycle' = IF fetch[t].stale
                          THEN [cycle EXCEPT !.runs = IF res.ran THEN Inc(@) ELSE @]
                          ELSE [cycle EXCEPT !.runs = IF res.ran THEN Inc(@) ELSE @,
                                             !.fill = "failed",
                                             !.reports = @ + FillFailed(fetch[t]).reports
                                                           - fetch[t].reports]
       ELSE /\ op' = FillBounds(res.o)
            /\ fetch' = [fetch EXCEPT ![t].pc = "commit",
                                      ![t].processing_succeeded = TRUE]
            /\ cycle' = IF fetch[t].stale
                          THEN [cycle EXCEPT !.runs = IF res.ran THEN Inc(@) ELSE @]
                          ELSE [cycle EXCEPT !.runs = IF res.ran THEN Inc(@) ELSE @,
                                             !.fill = "ok", !.out = res.o.processedData]
  /\ lastEvent' = NoEvent
  /\ UNCHANGED <<cacheLock, input0, aborted, lastCall>>

\* The rest of cacheAndProcessImage(), and findMinMaxValues().
EngineRun(t, r) ==
  EngineRan(t, cacheAndProcessImage_run(op, modelManager, inferenceProcessor, r))

CommitFill_retriesOnFailure(o, f) ==
  [o EXCEPT !.processingDone = f.processing_succeeded,
            !.cacheValid = f.processing_succeeded]

\* The end of the critical section.
CommitFill(o, f) ==
  [o EXCEPT !.processingDone = f.processing_succeeded, !.cacheValid = TRUE]

EngineCommit_holdsLockOnFailure(t) ==
  /\ fetch[t].pc = "commit"
  /\ op' = CommitFill(op, fetch[t])
  /\ cacheLock' = IF fetch[t].processing_succeeded THEN 0 ELSE cacheLock
  /\ fetch' = [fetch EXCEPT ![t].pc = "post"]
  /\ UNCHANGED cycle
  /\ lastEvent' = NoEvent
  /\ UNCHANGED <<modelManager, inferenceProcessor, input0, aborted, lastCall>>

EngineCommit(t) ==
  /\ fetch[t].pc = "commit"
  /\ op' = CommitFill(op, fetch[t])
  /\ cacheLock' = 0
  /\ fetch' = [fetch EXCEPT ![t].pc = "post"]
  /\ UNCHANGED cycle
  /\ lastEvent' = NoEvent
  /\ UNCHANGED <<modelManager, inferenceProcessor, input0, aborted, lastCall>>

\* After the critical section: does the call fall back to the input row?
FallsBack(o, y) == ~o.processingDone \/ y < 0 \/ y >= o.outputHeight

EnginePost(t) ==
  /\ fetch[t].pc = "post"
  /\ IF FallsBack(op, fetch[t].y)
       THEN Returned(t, "fallback", PassThrough)
       ELSE /\ fetch' = [fetch EXCEPT ![t].pc = "map"]
            /\ lastEvent' = NoEvent
  /\ UNCHANGED cycle
  /\ UNCHANGED <<modelManager, inferenceProcessor, op, cacheLock, input0,
                 aborted, lastCall>>

\* Utils::processTensorDataToRow on _processedData.
EngineMap(t) ==
  /\ fetch[t].pc = "map"
  /\ Returned(t, "mapped", "tensor")
  /\ cycle' = InCycle(t, [cycle EXCEPT !.reads = @ \cup {op.processedData}])
  /\ UNCHANGED <<modelManager, inferenceProcessor, op, cacheLock, input0,
                 aborted, lastCall>>

(***************************************************************************)
(* The callbacks of the control thread.  Each may come at any time: the    *)
(* operator takes no lock in them.                                         *)
(***************************************************************************)
\* An invalidating event starts a new cycle; the calls in flight are stale.
Invalidated ==
  /\ cycle' = [NewCycle EXCEPT
                 !.clean = \A t \in Threads : fetch[t].pc = "idle",
                 !.invalid = ~op'.cacheValid]
  /\ fetch' = [t \in Threads |->
                 IF fetch[t].pc = "idle" THEN IdleFetch
                 ELSE [fetch[t] EXCEPT !.stale = TRUE]]

\* The three lines after loadModel() in knob_changed and _validate.
ResetFlags(o) ==
  [o EXCEPT !.dimensionsSet = FALSE, !.cacheValid = FALSE, !.processingDone = FALSE]

\* knob_changed for "model_path" and "reload_model", res being what
\* loadModel() left and threw.
Reloaded(res, name) ==
  /\ modelManager' = res.h
  /\ op' = IF res.exc = NoExc THEN ResetFlags(res.o) ELSE res.o
  /\ lastEvent' = Event(name, res.exc, res.errors)
  /\ Invalidated
  /\ UNCHANGED <<inferenceProcessor, cacheLock, input0, aborted, lastCall>>

ReloadKnob(o, name) == Reloaded(loadModel(o, modelManager), name)

\* The host stores the new path, then knob_changed("model_path").
KnobModelPath(path) == ReloadKnob([op EXCEPT !.modelPath = path], "model_path")

KnobReloadModel == ReloadKnob(op, "reload_model")

\* The host stores the toggle, then knob_changed("normalize").
KnobNormalize(b) ==
  /\ op' = [op EXCEPT !.normalize = b, !.cacheValid = FALSE]
  /\ lastEvent' = Event("normalize", NoExc, 0)
  /\ Invalidated
  /\ UNCHANGED <<modelManager, inferenceProcessor, cacheLock, input0, aborted,
                 lastCall>>

KnobShowModelInfo ==
  /\ lastEvent' = Event("show_model_info", NoExc, 0)
  /\ UNCHANGED <<modelManager, inferenceProcessor, op, cacheLock, input0,
                 aborted, fetch, cycle, lastCall>>

Open ==
  /\ op' = [op EXCEPT !.cacheValid = FALSE, !.processingDone = FALSE,
                      !.dimensionsSet = FALSE]
  /\ lastEvent' = Event("open", NoExc, 0)
  /\ Invalidated
  /\ UNCHANGED <<modelManager, inferenceProcessor, cacheLock, input0, aborted,
                 lastCall>>

\* _validate(true) after updateActiveInputs(): the input check and
\* updateDimensions().  v: the operator, the handle, the error() reports so
\* far and whether loadModel() was called.
validate_connected(v, fmt) ==
  [v EXCEPT !.errors = @ + (IF v.o.activeInputs > 0 /\ ~input0 THEN 1 ELSE 0),
            !.o = IF ~v.o.dimensionsSet
                    THEN updateDimensions(v.o, input0, fmt) ELSE v.o]

\* _validate(true) after the load attempt.
validate_loaded(v, fmt) ==
  IF ~isLoaded(v.h) THEN v
  ELSE validate_connected([v EXCEPT !.o = updateActiveInputs(v.o, v.h)], fmt)

\* The load attempt of _validate(true), res being what loadModel() left.
validate_load(res) ==
  [o |-> IF res.exc = NoExc THEN ResetFlags(res.o) ELSE res.o,
   h |-> res.h,
   errors |-> IF res.exc # NoExc THEN res.errors + 1 ELSE 0,
   loaded |-> TRUE]

\* _validate(for_real): the operator and handle afterwards, its error()
\* reports, and whether it called loadModel().
validate(o, h, for_real, fmt) ==
  IF ~for_real THEN [o |-> o, h |-> h, errors |-> 0, loaded |-> FALSE]
  ELSE validate_loaded(
         IF ~isLoaded(h) /\ o.modelPath # ""
           THEN validate_load(loadModel(o, h))
           ELSE [o |-> o, h |-> h, errors |-> 0, loaded |-> FALSE],
         fmt)

Validated(res) ==
  /\ op' = res.o
  /\ modelManager' = res.h
  /\ lastEvent' = Event("validate", NoExc, res.errors)
  /\ IF res.loaded \/ (op.cacheValid /\ ~res.o.cacheValid)
          \/ res.o.processedData # op.processedData
       THEN Invalidated
       ELSE UNCHANGED <<fetch, cycle>>
  /\ UNCHANGED <<inferenceProcessor, cacheLock, input0, aborted, lastCall>>

Validate(for_real, fmt) == Validated(validate(op, modelManager, for_real, fmt))

\* The host raises or clears aborted(), connects or disconnects input 0.
SetAborted(b) ==
  /\ aborted # b
  /\ aborted' = b
  /\ lastEvent' = NoEvent
  /\ UNCHANGED <<modelManager, inferenceProcessor, op, cacheLock, input0,
                 fetch, cycle, lastCall>>

SetInput0(b) ==
  /\ input0 # b
  /\ input0' = b
  /\ lastEvent' = NoEvent
  /\ UNCHANGED <<modelManager, inferenceProcessor, op, cacheLock, aborted,
                 fetch, cycle, lastCall>>

\* The steps of the worker threads in T, with formats from F, engine
\* outcomes from R and preprocessing failures from 0..pf.
EngineStep(T, Y, F, R, pf) ==
  \/ \E t \in T, y \in Y : EngineEnter(t, y)
  \/ \E t \in T : EngineLock(t)
  \/ \E t \in T, conn1 \in BOOLEAN, fmt \in F, preFail \in 0..pf :
        EngineInputs(t, conn1, fmt, preFail)
  \/ \E t \in T, r \in R : EngineRun(t, r)
  \/ \E t \in T : EngineCommit(t)
  \/ \E t \in T : EnginePost(t)
  \/ \E t \in T : EngineMap(t)

\* The callbacks of the control thread, with model paths from P and
\* formats from F.
ControlStep(P, F) ==
  \/ \E path \in P : KnobModelPath(path)
  \/ KnobReloadModel
  \/ \E b \in BOOLEAN : KnobNormalize(b)
  \/ KnobShowModelInfo
  \/ Open
  \/ \E for_real \in BOOLEAN, fmt \in F : Validate(for_real, fmt)

HostStep ==
  \/ \E b \in BOOLEAN : SetAborted(b)
  \/ \E b \in BOOLEAN : SetInput0(b)

(***************************************************************************)
(* The operator under concurrent row fetches: every worker thread, the     *)
(* model files and engine outcomes that make a fill succeed or fail.       *)
(***************************************************************************)
CachePaths == {"", "missing.onnx", "depth.onnx"}

CacheRows == {0}

CacheFormats == {[w |-> 2, h |-> 2]}

CacheRuns == {r \in RunResults : r.kind = "throw" \/ r.shape = <<1, 1, 2, 2>>}

Next ==
  \/ EngineStep(Threads, CacheRows, CacheFormats, CacheRuns, 1)
  \/ ControlStep(CachePaths, CacheFormats)
  \/ HostStep

Spec == Init /\ [][Next]_vars

(***************************************************************************)
(* The operator filling its cache from outputs whose samples differ, to    *)
(* follow the normalization bounds.                                        *)
(***************************************************************************)
BoundsRuns ==
  {[kind |-> "throw", shape |-> << >>, data |-> << >>]}
  \cup {[kind |-> "ok", shape |-> <<1, 1, 2, 2>>, data |-> d] :
           d \in {<<3, 1, 4, 1>>, <<2, 2, 2, 2>>}}

NextBounds ==
  \/ EngineStep(Threads, CacheRows, CacheFormats, BoundsRuns, 0)
  \/ ControlStep({"depth.onnx"}, CacheFormats)
  \/ HostStep

SpecBounds == Init /\ [][NextBounds]_vars

(***************************************************************************)
(* The operator with worker threads that go on: a thread inside engine()   *)
(* takes its next step, Session::Run returns, and a thread waiting at the  *)
(* Guard gets the lock if it is free again and again.                      *)
(***************************************************************************)
FairRuns ==
  {[kind |-> "throw", shape |-> << >>, data |-> << >>],
   [kind |-> "ok", shape |-> <<1, 1, 2, 2>>, data |-> <<2, 2, 2, 2>>]}

InEngine(t) ==
  \/ EngineLock(t)
  \/ \E conn1 \in BOOLEAN, fmt \in CacheFormats : EngineInputs(t, conn1, fmt, 0)
  \/ \E r \in FairRuns : EngineRun(t, r)
  \/ EngineCommit(t)
  \/ EnginePost(t)
  \/ EngineMap(t)

NextFair ==
  \/ EngineStep(Threads, CacheRows, CacheFormats, FairRuns, 0)
  \/ KnobModelPath("depth.onnx")
  \/ Open
  \/ \E b \in BOOLEAN : SetInput0(b)

SpecFair == Init /\ [][NextFair]_vars /\ \A t \in Threads : SF_vars(InEngine(t))

(***************************************************************************)
(* The operator moved between models that declare 1, 2 and 11 inputs, one  *)
(* worker thread fetching rows.                                            *)
(***************************************************************************)
InputsRuns ==
  FairRuns \cup {[kind |-> "ok", shape |-> <<1, 1, 0, 2>>, data |-> << >>]}

NextInputs ==
  \/ EngineStep({1}, CacheRows, CacheFormats, InputsRuns, 0)
  \/ ControlStep({"missing.onnx", "depth.onnx", "pair.onnx", "many.onnx"}, CacheFormats)
  \/ HostStep

SpecInputs == Init /\ [][NextInputs]_vars

(***************************************************************************)
(* The model handle driven through its public interface.                   *)
(***************************************************************************)
HandleLoad(path, useGPU, cuda) ==
  LET res == load(modelManager, path, useGPU, cuda)
  IN  /\ modelManager' = res.h
      /\ lastCall' = Call("load", <<path, useGPU>>, res.exc, modelManager)
      /\ UNCHANGED opVars

HandleUnload ==
  /\ modelManager' = unload(modelManager)
  /\ lastCall' = Call("unload", NoArg, NoExc, modelManager)
  /\ UNCHANGED opVars

\* A run call: besides the call, whether Session::Run was invoked, the
\* input names and values it was given and the output names it was asked for.
RunCall(op_, arg, res, before) ==
  Call(op_, arg, res.exc, before)
    @@ [ran |-> res.ran, bound |-> res.bound, fed |-> res.fed, outputs |-> res.outputs]

HandleRunInference(inputTensor, inputShape, r) ==
  LET res == runInference(modelManager, inputTensor, inputShape, r)
  IN  /\ modelManager' = res.h
      /\ lastCall' = RunCall("runInference",
                             [tensors |-> <<inputTensor>>, shapes |-> <<inputShape>>,
                              names |-> << >>, kind |-> r.kind, shape |-> r.shape],
                             res, modelManager)
      /\ UNCHANGED opVars

HandleRunInferenceMultiInput(inputTensors, inputShapes, inputNames, r) ==
  LET res == runInferenceMultiInput(modelManager, inputTensors, inputShapes,
                                    inputNames, r)
  IN  /\ modelManager' = res.h
      /\ lastCall' = RunCall("runInferenceMultiInput",
                             [tensors |-> inputTensors, shapes |-> inputShapes,
                              names |-> inputNames, kind |-> r.kind, shape |-> r.shape],
                             res, modelManager)
      /\ UNCHANGED opVars

\* The arguments a caller of the handle supplies: the first n of these
\* buffers and shapes, and up to MaxNames names.
MaxSupplied == 2

MaxNames == 2

SuppliedBuffers == [i \in 1..MaxSupplied |-> [k \in 1..i |-> 4 + i]]

SuppliedShapes == [i \in 1..MaxSupplied |-> <<1, 1, 1, i>>]

SuppliedNames == {"", "aux", "zzz"}

NameLists == UNION {[1..n -> SuppliedNames] : n \in 0..MaxNames}

MultiRuns ==
  {r \in RunResults : r.kind = "throw" \/ (r.shape = <<3, 1, 2>> /\ r.data[1] = 1)}

NextHandle ==
  \/ \E path \in Paths, useGPU \in BOOLEAN, cuda \in BOOLEAN :
        HandleLoad(path, useGPU, cuda)
  \/ HandleUnload
  \/ \E r \in RunResults : HandleRunInference(SuppliedBuffers[1], SuppliedShapes[1], r)
  \/ \E nT \in 0..MaxSupplied, nS \in 0..MaxSupplied, names \in NameLists, r \in MultiRuns :
        HandleRunInferenceMultiInput(SubSeq(SuppliedBuffers, 1, nT),
                                     SubSeq(SuppliedShapes, 1, nS), names, r)

SpecHandle == Init /\ [][NextHandle]_vars


(***************************************************************************)
(* The inference processor driven through its public interface, beside a   *)
(* handle its owner loads and unloads.                                     *)
(***************************************************************************)
\* A call on the processor: the call, and the processor it was made on.
ProcessorCall(op_, arg, exc) ==
  Call(op_, arg, exc, modelManager) @@ [p |-> inferenceProcessor]

InitProcessor ==
  /\ modelManager = ONNXModelManager
  /\ inferenceProcessor = ONNXInferenceProcessor
  /\ op = ONNXRuntimeOp
  /\ cacheLock = 0
  /\ input0 = TRUE
  /\ aborted = FALSE
  /\ fetch = [t \in Threads |-> IdleFetch]
  /\ cycle = NewCycle
  /\ lastEvent = NoEvent
  /\ lastCall = ProcessorCall("construct", NoArg, NoExc)

ownerVars == <<op, cacheLock, input0, aborted, fetch, cycle, lastEvent>>

OwnerLoad(path) ==
  LET res == load(modelManager, path, FALSE, FALSE)
  IN  /\ modelManager' = res.h
      /\ lastCall' = ProcessorCall("load", <<path>>, res.exc)
      /\ UNCHANGED <<inferenceProcessor, ownerVars>>

OwnerUnload ==
  /\ modelManager' = unload(modelManager)
  /\ lastCall' = ProcessorCall("unload", NoArg, NoExc)
  /\ UNCHANGED <<inferenceProcessor, ownerVars>>

ProcessorSetModelManager ==
  /\ inferenceProcessor' = setModelManager(inferenceProcessor)
  /\ lastCall' = ProcessorCall("setModelManager", NoArg, NoExc)
  /\ UNCHANGED <<modelManager, ownerVars>>

ProcessorSetInputDimensions(width, height, channels) ==
  LET res == setInputDimensions(inferenceProcessor, width, height, channels)
  IN  /\ inferenceProcessor' = res.p
      /\ lastCall' = ProcessorCall("setInputDimensions", <<width, height, channels>>,
                                   res.exc)
      /\ UNCHANGED <<modelManager, ownerVars>>

ProcessorPrepareInputs(inputCount) ==
  LET res == prepareInputs(inferenceProcessor, modelManager, inputCount)
  IN  /\ inferenceProcessor' = res.p
      /\ lastCall' = ProcessorCall("prepareInputs", <<inputCount>>, res.exc)
      /\ UNCHANGED <<modelManager, ownerVars>>

ProcessorSetInputTensorData(inputIndex, data) ==
  LET res == setInputTensorData(inferenceProcessor, inputIndex, data)
  IN  /\ inferenceProcessor' = res.p
      /\ lastCall' = ProcessorCall("setInputTensorData", <<inputIndex, data>>, res.exc)
      /\ UNCHANGED <<modelManager, ownerVars>>

\* runInference(outputTensor) on an empty output buffer: besides the call,
\* which entry point of the handle was called, with what, what it threw,
\* whether Session::Run was invoked, and the caller's buffer afterwards.
ProcessorRan(r, res) ==
  /\ inferenceProcessor' = res.p
  /\ modelManager' = res.h
  /\ lastCall' = ProcessorCall("runInference", [kind |-> r.kind, shape |-> r.shape],
                               res.exc)
                   @@ [path |-> res.path, passed |-> res.passed, ran |-> res.ran,
                       raised |-> res.raised, out |-> res.out]
  /\ UNCHANGED ownerVars

ProcessorRunInference(r) ==
  ProcessorRan(r, processorRunInference(inferenceProcessor, modelManager, << >>, r))

\* The models, image sizes, slot counts, buffers and engine outcomes the
\* processor is driven with.
MaxSlots == 3

ProcessorPaths == {"missing.onnx", "depth.onnx", "pair.onnx", "mixed.onnx",
                   "noinput.onnx"}

ProcessorDimensions == {<<64, 32, 3>>, <<0, 32, 3>>}

ProcessorBuffers == {<< >>, <<5>>, <<6, 6>>}

ProcessorRuns ==
  {r \in RunResults : r.kind # "ok" \/ (r.shape = <<3, 1, 2>> /\ r.data[1] = 1)}

NextProcessor ==
  \/ \E path \in ProcessorPaths : OwnerLoad(path)
  \/ OwnerUnload
  \/ ProcessorSetModelManager
  \/ \E d \in ProcessorDimensions : ProcessorSetInputDimensions(d[1], d[2], d[3])
  \/ \E n \in (-1)..MaxSlots : ProcessorPrepareInputs(n)
  \/ \E i \in (-1)..MaxSlots, data \in ProcessorBuffers :
        ProcessorSetInputTensorData(i, data)
  \/ \E r \in ProcessorRuns : ProcessorRunInference(r)

SpecProcessor == InitProcessor /\ [][NextProcessor]_vars

(***************************************************************************)
(* The processor driven with engine outputs of every rank, to follow the   *)
(* geometry runInference derives from the shape of output 0.               *)
(***************************************************************************)
GeometrySlots == 2

GeometryShapes ==
  {<<1, 2, 3, 4>>, <<3, 1, 2>>, <<2, 3>>, <<2>>, << >>, <<1, 1, 2, 1, 3>>}

GeometryRuns ==
  {[kind |-> "throw", shape |-> << >>, data |-> << >>]}
  \cup {[kind |-> "ok", shape |-> s, data |-> Tensor(s, 1)] : s \in GeometryShapes}

NextGeometry ==
  \/ \E path \in {"depth.onnx", "pair.onnx"} : OwnerLoad(path)
  \/ OwnerUnload
  \/ ProcessorSetModelManager
  \/ \E d \in {<<64, 32, 3>>, <<8, 4, 3>>} :
        ProcessorSetInputDimensions(d[1], d[2], d[3])
  \/ \E n \in 1..GeometrySlots : ProcessorPrepareInputs(n)
  \/ \E i \in 0..(GeometrySlots - 1) : ProcessorSetInputTensorData(i, <<5>>)
  \/ \E r \in GeometryRuns : ProcessorRunInference(r)

SpecGeometry == InitProcessor /\ [][NextGeometry]_vars

(***************************************************************************)
(* The operator fetching rows inside and outside the output, one worker    *)
(* thread, with the row processTensorDataToRow writes.                     *)
(***************************************************************************)
Channel(chan, name) == [chan |-> chan, name |-> name]

\* input0().get(y, x, r, Mask_RGBA, inputRow), or inputRow.erase(Mask_RGBA).
InputRow(channels, x, r) ==
  [z \in channels |->
     [i \in x..(r - 1) |->
        IF input0 /\ z.chan \in {"Chan_Red", "Chan_Green", "Chan_Blue", "Chan_Alpha"}
          THEN Frac(50 + i, 1) ELSE Frac(0, 1)]]

\* The end of engine(): the input row and processTensorDataToRow, for the
\* span [x, r) and the channels of the request; row is the output row as
\* the host handed it over.
EngineMapRow(t, x, r, channels) ==
  /\ fetch[t].pc = "map"
  /\ Returned(t, "mapped", "tensor")
  /\ cycle' = InCycle(t, [cycle EXCEPT !.reads = @ \cup {op.processedData}])
  /\ LET row == [z \in channels |-> [i \in x..(r - 1) |-> Frac(99, 1)]]
     IN  lastCall' =
           [op |-> "processTensorDataToRow",
            arg |-> [y |-> fetch[t].y, x |-> x, r |-> r, channels |-> channels,
                     inputRow |-> InputRow(channels, x, r)],
            out |-> processTensorDataToRow(op.processedData, fetch[t].y, x, r,
                      channels, row, InputRow(channels, x, r), op.outputWidth,
                      op.outputHeight, op.outputChannelCount, op.isSingleChannel,
                      op.normalize, op.minValue, op.maxValue)]
  /\ UNCHANGED <<modelManager, inferenceProcessor, op, cacheLock, input0, aborted>>

RowRows == {-1, 0, 2}

RowChannels ==
  {{Channel("Chan_Red", <<"rgba", "red">>), Channel("Chan_Alpha", <<"rgba", "alpha">>)},
   {Channel("Chan_Green", <<"rgba", "green">>), Channel("Chan_Z", <<"depth", "z">>)}}

NextRow ==
  \/ \E y \in RowRows : EngineEnter(1, y)
  \/ EngineLock(1)
  \/ \E conn1 \in BOOLEAN, fmt \in CacheFormats : EngineInputs(1, conn1, fmt, 0)
  \/ \E r \in CacheRuns : EngineRun(1, r)
  \/ EngineCommit(1)
  \/ EnginePost(1)
  \/ \E r \in {2, 3}, channels \in RowChannels : EngineMapRow(1, 0, r, channels)
  \/ ControlStep({"depth.onnx"}, CacheFormats)
  \/ HostStep

SpecRow == Init /\ [][NextRow]_vars

(***************************************************************************)
(* The tensor utilities applied to buffers and arguments drawn from small  *)
(* sets: the initial state holds the arguments of one call, the step       *)
(* applies the function to them.                                           *)
(***************************************************************************)
MaxSamples == 3

\* The arguments of one call: of a min/max scan, of normalize, of
\* getTensorValue, of processTensorDataToRow or of tileToNCHWTensor.
\* processTensorDataToRow maps one row of an output of 1 to 4 planes, 2
\* wide and 1 high, whose plane c holds 10 * (c + 1) and 10 * (c + 1) + 1;
\* the operator passes isSingleChannel true exactly when it passes
\* channelCount 1.  tileToNCHWTensor converts a region of 2 x 2 pixels at
\* (0, 0) or (1, 2) whose pixel of plane c at (row, column) is
\* 100 * (c + 1) + 10 * row + column, into an empty vector or one that
\* holds twelve elements 7.
TensorInputs ==
  LET Input(f, arg) == [op |-> "input", f |-> f, arg |-> arg]
      Planes(c) == [k \in 1..(2 * c) |-> 10 * ((k + 1) \div 2) + ((k + 1) % 2)]
      Custom(name) == Channel("Chan_Custom", name)
      MapChannels ==
        {Channel("Chan_Red", <<"rgba", "red">>), Channel("Chan_Green", <<"rgba", "green">>),
         Channel("Chan_Blue", <<"rgba", "blue">>), Channel("Chan_Alpha", <<"rgba", "alpha">>),
         Custom(<<"motion", "x">>), Custom(<<"layer", "g">>), Custom(<<"depth", "z">>),
         Custom(<<"other", "w">>), Custom(<<"mask", "foo">>), Custom(<<"red">>),
         Custom(<< >>), Custom(<<"layer", "red", "u">>), Custom(<<"layer", "u", "b">>)}
      MapRequests == {{z} : z \in MapChannels}
                       \cup {{z \in MapChannels : z.chan # "Chan_Custom"}}
      Rows_(channels, x, r, v) == [z \in channels |-> [i \in x..(r - 1) |-> Frac(v + i, 1)]]
      Plane(chan) == CASE chan = "Chan_Red" -> 0 [] chan = "Chan_Green" -> 1
                       [] chan = "Chan_Blue" -> 2 [] chan = "Chan_Alpha" -> 3
      Region(channels, x, y, nullRows) ==
        Tile(channels, [x |-> x, y |-> y, r |-> x + 2, t |-> y + 2], nullRows,
             [chan \in channels |->
                [row \in y..(y + 1) |->
                   [column \in x..(x + 1) |->
                      100 * (Plane(chan) + 1) + 10 * row + column]]])
      Regions ==
        {Region(channels, o[1], o[2], nullRows) :
           channels \in {{"Chan_Red", "Chan_Green", "Chan_Blue"}, {"Chan_Red", "Chan_Blue"},
                         {"Chan_Red", "Chan_Green", "Chan_Blue", "Chan_Alpha"}},
           o \in {<<0, 0>>, <<1, 2>>}, nullRows \in {{}, {2}}}
      ScanBuffers == UNION {[1..n -> {1, 3, NaN, NegInf}] : n \in 0..MaxSamples}
      ReadBuffers == {<< >>, <<7>>, <<7, 9>>, <<7, NaN, 9, 8>>, <<PosInf, 9, 8>>}
  IN  {Input("findMinMax", [tensorData |-> d]) : d \in ScanBuffers}
      \cup {Input("findMinMaxMultiChannel",
                  [tensorData |-> d, channelCount |-> c, width |-> w, height |-> h]) :
               d \in ScanBuffers, c \in 0..3, w \in 0..2, h \in 0..2}
      \cup {Input("normalize", [value |-> v, min |-> a, max |-> b]) :
               v \in {-1, 0, 1, 2, 3, 4, 5, NaN, PosInf, NegInf},
               a \in {0, 1, 4, NaN, NegInf}, b \in {0, 1, 4, NaN, PosInf}}
      \cup {Input("getTensorValue",
                  [tensorData |-> d, x |-> x, y |-> y, channelIdx |-> c,
                   width |-> w, height |-> h, isSingleChannel |-> s,
                   doNormalize |-> n, minValue |-> 7, maxValue |-> 9]) :
               d \in ReadBuffers, x \in {-1, 0, 1, 2}, y \in {-1, 0, 1, 40000},
               c \in {-1, 0, 1, 3}, w \in {0, 1, 2, 65536}, h \in {0, 1, 2, 65536},
               s \in BOOLEAN, n \in BOOLEAN}
      \cup {Input("processTensorDataToRow",
                  [tensorData |-> Planes(c), y |-> 0, x |-> x, r |-> r,
                   channels |-> channels, row |-> Rows_(channels, x, r, 90),
                   inputRow |-> Rows_(channels, x, r, 50),
                   outputWidth |-> 2, outputHeight |-> 1, channelCount |-> c,
                   isSingleChannel |-> (c = 1), normalize |-> n,
                   minValue |-> 10, maxValue |-> 50]) :
               c \in 1..4, x \in {0, 1}, r \in {2, 3}, channels \in MapRequests,
               n \in BOOLEAN}
      \cup {Input("tileToNCHWTensor",
                  [tile |-> t, tensor |-> d, width |-> w, height |-> h, channels |-> c]) :
               t \in Regions, d \in {<< >>, [k \in 1..12 |-> 7]},
               w \in {0, 1, 2}, h \in {-1, 1, 2}, c \in {0, 1, 3, 5}}

InitTensor ==
  /\ modelManager = ONNXModelManager
  /\ inferenceProcessor = ONNXInferenceProcessor
  /\ op = ONNXRuntimeOp
  /\ cacheLock = 0
  /\ input0 = TRUE
  /\ aborted = FALSE
  /\ fetch = [t \in Threads |-> IdleFetch]
  /\ cycle = NewCycle
  /\ lastEvent = NoEvent
  /\ lastCall \in TensorInputs

Applied(f, out) ==
  /\ lastCall.op = "input"
  /\ lastCall.f = f
  /\ lastCall' = [op |-> f, arg |-> lastCall.arg, out |-> out]
  /\ UNCHANGED <<modelManager, inferenceProcessor, ownerVars>>

TensorFindMinMax ==
  Applied("findMinMax", findMinMax(lastCall.arg.tensorData))

TensorFindMinMaxMultiChannel ==
  Applied("findMinMaxMultiChannel",
          LET a == lastCall.arg
          IN  findMinMaxMultiChannel(a.tensorData, a.channelCount, a.width, a.height))

TensorNormalize ==
  Applied("normalize",
          LET a == lastCall.arg IN normalize(a.value, a.min, a.max))

TensorGetTensorValue ==
  Applied("getTensorValue",
          LET a == lastCall.arg
          IN  getTensorValue(a.tensorData, a.x, a.y, a.channelIdx, a.width, a.height,
                             a.isSingleChannel, a.doNormalize, a.minValue, a.maxValue))

TensorProcessTensorDataToRow ==
  Applied("processTensorDataToRow",
          LET a == lastCall.arg
          IN  processTensorDataToRow(a.tensorData, a.y, a.x, a.r, a.channels, a.row,
                a.inputRow, a.outputWidth, a.outputHeight, a.channelCount,
                a.isSingleChannel, a.normalize, a.minValue, a.maxValue))

TensorTileToNCHWTensor ==
  Applied("tileToNCHWTensor",
          LET a == lastCall.arg
          IN  tileToNCHWTensor(a.tile, a.tensor, a.width, a.height, a.channels))

NextTensor ==
  \/ TensorFindMinMax
  \/ TensorFindMinMaxMultiChannel
  \/ TensorNormalize
  \/ TensorGetTensorValue
  \/ TensorProcessTensorDataToRow
  \/ TensorTileToNCHWTensor

SpecTensor == InitTensor /\ [][NextTensor]_vars

(***************************************************************************)
(* Properties of the model handle, checked under SpecHandle.               *)
(***************************************************************************)
\* C8, as the specification states it: a load that throws, whether session
\* creation or metadata extraction failed, leaves the handle exactly as
\* unload() leaves it: not loaded, no session, the four metadata lists empty.
LoadFailureLeavesUnloaded ==
  (lastCall.op = "load" /\ lastCall.exc # NoExc) =>
     /\ modelManager = unload(lastCall.before)
     /\ modelManager = ONNXModelManager

\* C9: unload never throws and leaves the handle not loaded, without a
\* session and with the four metadata lists empty, whatever state it was
\* called in; a second unload changes nothing.
UnloadAlwaysSucceeds ==
  lastCall.op = "unload" =>
     /\ lastCall.exc = NoExc
     /\ modelManager = ONNXModelManager
     /\ unload(modelManager) = modelManager

\* C9's case: unload was called on a loaded handle.
UnloadedALoadedHandle ==
  /\ lastCall.op = "unload"
  /\ lastCall.before.modelLoaded
  /\ lastCall.before.session # NoSession
  /\ lastCall.before.inputNames # << >>

\* C10, as the specification states it: a loaded handle has at least one
\* input, also after loading a model file that declares no inputs.
LoadedHasAnInput ==
  isLoaded(modelManager) => getInputCount(modelManager) >= 1

\* The last call on the handle was one of its two run entry points.
RunCalled == lastCall.op \in {"runInference", "runInferenceMultiInput"}

\* C11: a run call on a handle that is not loaded (never loaded, unloaded,
\* or left by a failed load, with or without a session) throws
\* InferenceException without Session::Run being invoked and leaves the
\* handle as it was; a run call that returns has invoked Session::Run and
\* left the shape the engine returned as the stored shape of output 0,
\* nothing else of the handle changed.
RunNeedsLoadedHandle ==
  RunCalled =>
     /\ ~lastCall.before.modelLoaded =>
          /\ lastCall.exc.kind = "InferenceException"
          /\ ~lastCall.ran
          /\ modelManager = lastCall.before
     /\ lastCall.exc = NoExc =>
          /\ lastCall.ran
          /\ lastCall.before.modelLoaded
          /\ modelManager.outputDims[1] = lastCall.arg.shape
          /\ modelManager = [lastCall.before EXCEPT !.outputDims[1] = lastCall.arg.shape]

\* C11's case: the multi-input run was called on the handle a failed load
\* left, which holds a session and is not loaded.
RunAfterFailedLoad ==
  /\ lastCall.op = "runInferenceMultiInput"
  /\ ~lastCall.before.modelLoaded
  /\ lastCall.before.session # NoSession
  /\ lastCall.arg.tensors # << >>
  /\ lastCall.exc.kind = "InferenceException"

\* The multi-input run was called on a loaded handle.
MultiInputCalled ==
  lastCall.op = "runInferenceMultiInput" /\ lastCall.before.modelLoaded

\* C12, as the specification states it: on a loaded handle the multi-input
\* run throws InvalidArgumentException, before any buffer or the engine is
\* touched, when the buffer count differs from the shape count or more
\* names are supplied than inputs declared; with every other combination of
\* counts no list is read past its end.
MultiInputChecksCounts ==
  MultiInputCalled =>
     IF \/ Len(lastCall.arg.tensors) # Len(lastCall.arg.shapes)
        \/ Len(lastCall.arg.names) > Len(lastCall.before.inputNames)
       THEN /\ lastCall.exc.kind = "InvalidArgumentException"
            /\ ~lastCall.ran
            /\ lastCall.fed = << >>
            /\ modelManager = lastCall.before
       ELSE lastCall.exc # Undefined

\* C13: when the multi-input run reaches Session::Run, the i-th value
\* handed over is the i-th supplied buffer and shape under the declared
\* name equal to the i-th supplied name, or under the i-th declared name
\* when the supplied name is empty or equals no declared name; the one
\* output requested is the first declared output.
MultiInputBindsByName ==
  (MultiInputCalled /\ lastCall.ran) =>
     /\ Len(lastCall.bound) = Len(lastCall.arg.names)
     /\ Len(lastCall.fed) = Len(lastCall.arg.names)
     /\ \A i \in 1..Len(lastCall.arg.names) :
           /\ lastCall.fed[i].data = lastCall.arg.tensors[i]
           /\ lastCall.fed[i].shape = lastCall.arg.shapes[i]
           /\ IF /\ lastCall.arg.names[i] # ""
                 /\ {k \in 1..Len(lastCall.before.inputNames) :
                       lastCall.before.inputNames[k] = lastCall.arg.names[i]} # {}
                THEN lastCall.bound[i] = lastCall.arg.names[i]
                ELSE lastCall.bound[i] = lastCall.before.inputNames[i]
     /\ (lastCall.arg.names = <<"", "aux">> /\ lastCall.before.inputNames = <<"img", "aux">>)
           => lastCall.bound = <<"img", "aux">>
     /\ lastCall.outputs = <<lastCall.before.outputNames[1]>>

\* C13's case: the names "" and "aux" were supplied to a model declaring
\* "img" and "aux", and Session::Run was invoked.
BoundPositionallyAndByName ==
  /\ MultiInputCalled
  /\ lastCall.ran
  /\ lastCall.arg.names = <<"", "aux">>
  /\ lastCall.before.inputNames = <<"img", "aux">>
  /\ lastCall.bound = <<"img", "aux">>

(***************************************************************************)
(* Properties of the cache under concurrent row fetches, checked under     *)
(* Spec.  A call is fresh when no invalidating event came during it: the   *)
(* fresh calls are the row fetches of the current cycle.                   *)
(***************************************************************************)
Fresh(t) == fetch[t].pc # "idle" /\ ~fetch[t].stale

\* Between the critical section and the last read of _processedData.
PastFill(t) == fetch[t].pc \in {"post", "map"}

\* Inside the critical section, past the test of _cacheValid.
Filling(t) == fetch[t].pc \in {"inputs", "run", "commit"}

\* The current cycle began with no fetch in flight and an invalid cache,
\* and every worker thread is in a fetch of it, past the critical section.
ConcurrentFetchesDone ==
  /\ cycle.clean
  /\ cycle.invalid
  /\ \A t \in Threads : Fresh(t) /\ PastFill(t)

\* What holds of every cycle, whatever the fill's outcome: Session::Run is
\* invoked at most once, one fill is begun at most, one call at most is the
\* filler, and the fetches that read the buffer read the same content.
OneFillPerCycle ==
  /\ cycle.runs <= 1
  /\ cycle.refills = 0
  /\ Cardinality({t \in Threads : Fresh(t) /\ fetch[t].filled}) <= 1
  /\ Cardinality(cycle.reads) <= 1

\* C1, amended: within one cycle Session::Run is invoked at most once; of
\* concurrent fetches on an invalidated cache exactly one performs the fill,
\* and Session::Run is invoked exactly once when the fill succeeds, at most
\* once when it fails (not at all when it fails before the run call); the
\* fetches that read the buffer read the same content, the fill's output.
RunAtMostOncePerCycle ==
  /\ OneFillPerCycle
  /\ ConcurrentFetchesDone =>
       /\ cycle.fill \in {"ok", "failed"}
       /\ cycle.fill = "ok" => cycle.runs = 1 /\ cycle.reads \subseteq {cycle.out}
       /\ cycle.fill = "failed" => cycle.reads = {}

\* C1's case: two concurrent fetches of one cycle, one of them the filler,
\* both about to read the buffer the one inference returned.
BothReadOneFill ==
  /\ ConcurrentFetchesDone
  /\ cycle.runs = 1
  /\ \A t \in Threads : fetch[t].pc = "map"
  /\ \E t \in Threads : fetch[t].filled
  /\ op.processedData = cycle.out

\* C1, as the specification states it: of two concurrent fetches on an
\* invalidated cache exactly one invokes Session::Run.
ExactlyOneFetchRuns ==
  /\ OneFillPerCycle
  /\ ConcurrentFetchesDone => cycle.runs = 1

\* C2: once the fill of a cycle has failed, no fetch of the cycle reads the
\* buffer or is about to, the fetches past the critical section fall back
\* to the input row (or erase the row), and no second fill is begun.
FailedFillFallsBack ==
  /\ lastEvent.name = "fallback" => lastEvent.row = PassThrough
  /\ cycle.fill = "failed" =>
     /\ cycle.reads = {}
     /\ cycle.refills = 0
     /\ \A t \in Threads :
           Fresh(t) =>
              /\ fetch[t].pc # "map"
              /\ fetch[t].pc = "post" =>
                   /\ op.cacheValid
                   /\ FallsBack(op, fetch[t].y)

\* C2's case: the fill failed, the filler has returned the input row, and a
\* later fetch of the cycle is past the critical section without a fill.
LaterFetchAfterFailedFill ==
  /\ cycle.fill = "failed"
  /\ cycle.clean
  /\ lastEvent.name = "fallback"
  /\ lastEvent.row = PassThrough
  /\ \E t \in Threads : Fresh(t) /\ fetch[t].pc = "post" /\ ~fetch[t].filled

\* The events the specification lists as invalidating the cache.
InvalidatingEvent ==
  \/ \E path \in Paths : KnobModelPath(path)
  \/ KnobReloadModel
  \/ \E b \in BOOLEAN : KnobNormalize(b)
  \/ Open

\* C3, as the specification states it: every model path change, model
\* reload, normalization toggle and reopen leaves the cache-valid flag
\* cleared, in every state and whether or not the event's processing
\* succeeds.
EveryEventInvalidates == [][InvalidatingEvent => ~op'.cacheValid]_vars

\* A fetch that performed the fill of the current cycle has left the
\* critical section.
FillerDone(t) == Fresh(t) /\ fetch[t].filled /\ PastFill(t)

FailureReportedOnce ==
  /\ cycle.reports = (IF cycle.fill = "failed" THEN 1 ELSE 0)
  /\ \A t \in Threads :
        fetch[t].reports =
           (IF fetch[t].filled /\ fetch[t].pc \in {"commit", "post", "map"}
                /\ ~fetch[t].processing_succeeded
              THEN 1 ELSE 0)

\* C6's case: the failed fill was reported and another fetch of the cycle,
\* which did not fill, is past the critical section.
ReportedWithOtherFetches ==
  /\ cycle.fill = "failed"
  /\ cycle.reports = 1
  /\ \E t \in Threads :
        Fresh(t) /\ fetch[t].pc = "post" /\ ~fetch[t].filled /\ fetch[t].reports = 0

\* C7: a fetch that finds the model unloaded or the abort flag set returns
\* the passed-through row at once, without a Session::Run and leaving the
\* operator, the handle and the processor as they were; raising the abort
\* flag changes no fetch in progress, and a fill in progress goes on to the
\* end of its critical section whatever the flag.
BypassLeavesCacheAlone ==
  [][/\ \A t \in Threads :
          (fetch[t].pc = "idle" /\ (~isLoaded(modelManager) \/ aborted))
             => fetch'[t].pc = "idle"
     /\ lastEvent'.name = "bypass" =>
          /\ ~isLoaded(modelManager) \/ aborted
          /\ lastEvent'.row = PassThrough
          /\ UNCHANGED <<op, modelManager, inferenceProcessor, cacheLock>>
          /\ cycle'.runs = cycle.runs
     /\ aborted' # aborted => UNCHANGED <<fetch, op, cacheLock>>
     /\ \A t \in Threads :
          Filling(t) => Filling(t)' \/ fetch'[t].pc = "post"]_vars

\* C7's case: the abort flag was raised during a fill, another thread's
\* fetch has bypassed, and the fill is completing with its result.
BypassDuringFill ==
  /\ aborted
  /\ isLoaded(modelManager)
  /\ lastEvent.name = "bypass"
  /\ \E t \in Threads : fetch[t].pc = "commit" /\ fetch[t].processing_succeeded

(***************************************************************************)
(* Properties of the inference processor, checked under SpecProcessor.     *)
(* lastCall.p is the processor and lastCall.before the handle the last     *)
(* call was made on.                                                       *)
(***************************************************************************)
Called(name) == lastCall.op = name

\* The handle was attached and loaded when the last call was made.
OnLoadedHandle == lastCall.p.modelManager /\ lastCall.before.modelLoaded

\* The slots before the last call, and those of them marked valid.
SlotsBefore == lastCall.p.inputTensors

ValidBefore == {i \in 1..Len(SlotsBefore) : SlotsBefore[i].valid}

\* C14: prepareInputs(n) throws ConfigurationException when no handle is
\* attached or the attached handle is not loaded, whatever n is, throws
\* InvalidArgumentException when the handle is loaded and n <= 0, and in
\* both cases leaves the processor, its slots included, as it was; with a
\* loaded handle and n > 0 it returns.
PrepareInputsChecks ==
  Called("prepareInputs") =>
     /\ ~OnLoadedHandle =>
          /\ lastCall.exc.kind = "ConfigurationException"
          /\ inferenceProcessor = lastCall.p
     /\ (OnLoadedHandle /\ lastCall.arg[1] <= 0) =>
          /\ lastCall.exc.kind = "InvalidArgumentException"
          /\ inferenceProcessor = lastCall.p
     /\ (OnLoadedHandle /\ lastCall.arg[1] > 0) => lastCall.exc = NoExc

\* C14's case: prepareInputs with a count that is not positive was called
\* on an attached, unloaded handle while the processor held a valid slot.
PrepareOnUnloadedHandle ==
  /\ Called("prepareInputs")
  /\ lastCall.arg[1] <= 0
  /\ lastCall.p.modelManager
  /\ ~lastCall.before.modelLoaded
  /\ ValidBefore # {}
  /\ lastCall.exc.kind = "ConfigurationException"

\* The shape the model declares for input i (1-based); empty when it
\* declares none.
DeclaredShape(i) ==
  IF i <= Len(lastCall.before.inputDims) THEN lastCall.before.inputDims[i] ELSE << >>

ImageShape == <<1, lastCall.p.channels, lastCall.p.height, lastCall.p.width>>

PreparedOk == Called("prepareInputs") /\ lastCall.exc = NoExc

\* C15, amended: after a successful prepareInputs(n) a slot whose declared
\* shape has rank >= 4 holds that shape with index 2 replaced by the input
\* height and index 3 by the input width, the other entries kept; a slot
\* whose declared shape is not empty and of rank below 4 holds the declared
\* shape unchanged; a slot with no declared shape, or an empty one, holds
\* [1, channels, height, width].
PreparedShapeFollowsDeclared ==
  PreparedOk =>
     \A i \in 1..Len(inferenceProcessor.inputTensors) :
        LET shape == inferenceProcessor.inputTensors[i].shape
        IN  /\ Len(DeclaredShape(i)) >= 4 =>
                 /\ Len(shape) = Len(DeclaredShape(i))
                 /\ shape[3] = lastCall.p.height
                 /\ shape[4] = lastCall.p.width
                 /\ \A k \in 1..Len(shape) : k \notin {3, 4} => shape[k] = DeclaredShape(i)[k]
            /\ Len(DeclaredShape(i)) \in 1..3 => shape = DeclaredShape(i)
            /\ DeclaredShape(i) = << >> => shape = ImageShape
            /\ (DeclaredShape(i) = <<1, 3, -1, -1>> /\ lastCall.p.width = 64
                  /\ lastCall.p.height = 32) => shape = <<1, 3, 32, 64>>

\* C15's case: three slots were prepared for a 64x32 image on a model that
\* declares shapes of rank 5, rank 3 and rank 0.
PreparedEveryRank ==
  /\ PreparedOk
  /\ lastCall.p.width = 64
  /\ lastCall.p.height = 32
  /\ Len(inferenceProcessor.inputTensors) = 3
  /\ Len(DeclaredShape(1)) = 5
  /\ Len(DeclaredShape(2)) = 3
  /\ DeclaredShape(3) = << >>
  /\ inferenceProcessor.inputTensors[1].shape = <<1, 3, 32, 64, 2>>
  /\ inferenceProcessor.inputTensors[2].shape = DeclaredShape(2)
  /\ inferenceProcessor.inputTensors[3].shape = <<1, 3, 32, 64>>

\* C15, as the specification states it: a slot whose declared shape has
\* rank below 4, like a slot with no declared shape, holds the default
\* [1, channels, height, width].
PreparedShapeDefaultsBelowRank4 ==
  PreparedOk =>
     \A i \in 1..Len(inferenceProcessor.inputTensors) :
        Len(DeclaredShape(i)) < 4 => inferenceProcessor.inputTensors[i].shape = ImageShape

\* C16: every slot marked valid has data and a shape; and a successful
\* prepareInputs(n) leaves exactly n slots, none valid, none with data,
\* whatever the slots held before.
ValidSlotsHaveData ==
  /\ \A i \in 1..Len(inferenceProcessor.inputTensors) :
        inferenceProcessor.inputTensors[i].valid =>
           /\ inferenceProcessor.inputTensors[i].data # << >>
           /\ inferenceProcessor.inputTensors[i].shape # << >>
  /\ PreparedOk =>
        /\ Len(inferenceProcessor.inputTensors) = lastCall.arg[1]
        /\ \A i \in 1..Len(inferenceProcessor.inputTensors) :
              /\ ~inferenceProcessor.inputTensors[i].valid
              /\ inferenceProcessor.inputTensors[i].data = << >>

\* C16's case: prepareInputs succeeded on a processor that held valid slots
\* with data.
PreparedOverValidSlots ==
  /\ PreparedOk
  /\ ValidBefore # {}
  /\ \E i \in ValidBefore : i <= lastCall.arg[1] /\ SlotsBefore[i].data # << >>

\* C17: setInputTensorData(i, data) throws InvalidArgumentException and
\* leaves the processor as it was when i is not the index of a slot or data
\* is empty; otherwise it returns with data stored in slot i and slot i
\* valid, the slot's name and shape, the other slots and the rest of the
\* processor as they were.
SetInputTensorDataChecks ==
  Called("setInputTensorData") =>
     IF \/ lastCall.arg[1] < 0
        \/ lastCall.arg[1] >= Len(SlotsBefore)
        \/ lastCall.arg[2] = << >>
       THEN /\ lastCall.exc.kind = "InvalidArgumentException"
            /\ inferenceProcessor = lastCall.p
       ELSE /\ lastCall.exc = NoExc
            /\ Len(inferenceProcessor.inputTensors) = Len(SlotsBefore)
            /\ \A k \in 1..Len(SlotsBefore) :
                  IF k = lastCall.arg[1] + 1
                    THEN /\ inferenceProcessor.inputTensors[k].data = lastCall.arg[2]
                         /\ inferenceProcessor.inputTensors[k].valid
                         /\ inferenceProcessor.inputTensors[k].name = SlotsBefore[k].name
                         /\ inferenceProcessor.inputTensors[k].shape = SlotsBefore[k].shape
                    ELSE inferenceProcessor.inputTensors[k] = SlotsBefore[k]
            /\ [inferenceProcessor EXCEPT !.inputTensors = SlotsBefore] = lastCall.p

\* C17's case: data was stored in the second slot while the first held
\* other data.
StoredBesideAnotherSlot ==
  /\ Called("setInputTensorData")
  /\ lastCall.exc = NoExc
  /\ lastCall.arg[1] = 1
  /\ 1 \in ValidBefore
  /\ SlotsBefore[1].data # lastCall.arg[2]
  /\ inferenceProcessor.inputTensors[1] = SlotsBefore[1]

\* C18: the processor's runInference throws ConfigurationException when no
\* slot is marked valid, without calling the handle and changing neither
\* the handle nor the processor; so it does after a prepareInputs that left
\* every slot invalid.
RunNeedsValidSlot ==
  (Called("runInference") /\ ValidBefore = {}) =>
     /\ lastCall.exc.kind = "ConfigurationException"
     /\ lastCall.path = "none"
     /\ ~lastCall.ran
     /\ modelManager = lastCall.before
     /\ inferenceProcessor = lastCall.p

\* C18's case: runInference was called on slots prepared on a loaded handle
\* and never given data.
RanOnPreparedSlotsOnly ==
  /\ Called("runInference")
  /\ OnLoadedHandle
  /\ Len(SlotsBefore) >= 1
  /\ \A i \in 1..Len(SlotsBefore) : ~SlotsBefore[i].valid /\ SlotsBefore[i].data = << >>
  /\ lastCall.exc = ConfigurationException(<<"No valid input tensors available for inference">>)

\* The j-th valid slot before the last call, in increasing index order.
NthValid(j) ==
  CHOOSE i \in ValidBefore : Cardinality({m \in ValidBefore : m <= i}) = j

\* C19: when the processor's runInference calls the handle, it calls the
\* single-input path if exactly one slot is valid, with that slot's buffer
\* and shape, and the multi-input path if two or more are, with the buffers,
\* shapes and names of the valid slots in increasing index order, invalid
\* slots left out; on a loaded handle it calls it whenever a slot is valid.
RunPassesValidSlotsInOrder ==
  Called("runInference") =>
     /\ (OnLoadedHandle /\ ValidBefore # {}) => lastCall.path # "none"
     /\ lastCall.path # "none" =>
          /\ ValidBefore # {}
          /\ lastCall.path = (IF Cardinality(ValidBefore) = 1 THEN "single" ELSE "multi")
          /\ Len(lastCall.passed.tensors) = Cardinality(ValidBefore)
          /\ Len(lastCall.passed.shapes) = Cardinality(ValidBefore)
          /\ \A j \in 1..Cardinality(ValidBefore) :
                /\ lastCall.passed.tensors[j] = SlotsBefore[NthValid(j)].data
                /\ lastCall.passed.shapes[j] = SlotsBefore[NthValid(j)].shape
          /\ lastCall.path = "multi" =>
                lastCall.passed.names =
                   [j \in 1..Cardinality(ValidBefore) |-> SlotsBefore[NthValid(j)].name]

\* C19's case: of three slots the first and the third were valid, with
\* different buffers, and the multi-input path was called.
SkippedAnInvalidSlot ==
  /\ Called("runInference")
  /\ ValidBefore = {1, 3}
  /\ SlotsBefore[1].data # SlotsBefore[3].data
  /\ lastCall.path = "multi"
  /\ lastCall.passed.tensors = <<SlotsBefore[1].data, SlotsBefore[3].data>>

\* C20, as the specification states it: a failure of the processor's
\* runInference is a ConfigurationException or an InferenceException; what
\* the handle threw comes out unchanged when it is one of these two, and
\* otherwise as an InferenceException whose text ends with the text of what
\* the handle threw.
HandleErrorsRewrapped ==
  (Called("runInference") /\ lastCall.exc # NoExc) =>
     /\ lastCall.exc.kind \in {"ConfigurationException", "InferenceException"}
     /\ lastCall.raised # NoExc =>
          IF lastCall.raised.kind \in {"ConfigurationException", "InferenceException"}
            THEN lastCall.exc = lastCall.raised
            ELSE /\ lastCall.exc.kind = "InferenceException"
                 /\ \E prefix \in {<<"Inference Error: ", "Single-input inference failed: ">>,
                                   <<"Inference Error: ", "Multi-input inference failed: ">>} :
                       lastCall.exc.what = prefix \o lastCall.raised.what

(***************************************************************************)
(* Properties of the derived output geometry, checked under SpecGeometry.  *)
(***************************************************************************)
\* The last call was a processor runInference that returned normally.
RunSucceeded == Called("runInference") /\ lastCall.exc = NoExc

\* The actual shape of output 0 of that run.
ActualShape == lastCall.arg.shape

Geometry(p) ==
  [w |-> p.outputWidth, h |-> p.outputHeight, c |-> p.outputChannels,
   single |-> p.isSingleChannel]

\* C21: after a successful runInference the geometry follows the actual
\* shape of output 0: rank 4 gives channels dim[1], height dim[2], width
\* dim[3]; rank 3 gives channels dim[0], height dim[1], width dim[2]; rank 2
\* gives 1 channel, height dim[0], width dim[1]; single-channel is set when
\* the channel count is 1.
GeometryFollowsActualShape ==
  RunSucceeded =>
    LET d == ActualShape
        g == Geometry(inferenceProcessor)
    IN  /\ modelManager.outputDims[1] = d
        /\ Len(d) = 4 => g = [w |-> d[4], h |-> d[3], c |-> d[2], single |-> (d[2] = 1)]
        /\ Len(d) = 3 => g = [w |-> d[3], h |-> d[2], c |-> d[1], single |-> (d[1] = 1)]
        /\ Len(d) = 2 => g = [w |-> d[2], h |-> d[1], c |-> 1, single |-> TRUE]

\* A run returned [3,1,2] after an earlier run had left a single-channel
\* geometry: width 2, height 1, 3 channels, not single-channel.
DerivedMultiChannelGeometry ==
  /\ RunSucceeded
  /\ ActualShape = <<3, 1, 2>>
  /\ Geometry(lastCall.p) = [w |-> 3, h |-> 2, c |-> 1, single |-> TRUE]
  /\ Geometry(inferenceProcessor) = [w |-> 2, h |-> 1, c |-> 3, single |-> FALSE]

\* The run returned a shape of rank 0 or 1.
RankBelow2 == RunSucceeded /\ Len(ActualShape) < 2

\* The run returned a shape of rank 5 or more.
RankAbove4 == RunSucceeded /\ Len(ActualShape) > 4

\* C22, as the code has it: a successful run that returns a shape of rank
\* 0 or 1 sets the geometry to the input width and height and 1 channel,
\* whatever it was before; a shape of rank 5 or more is read as a rank-4
\* shape (channels dim[1], height dim[2], width dim[3]).
OtherRanksResetGeometry ==
  LET d == ActualShape
      g == Geometry(inferenceProcessor)
  IN  /\ RankBelow2 =>
           g = [w |-> inferenceProcessor.width, h |-> inferenceProcessor.height,
                c |-> 1, single |-> TRUE]
      /\ RankAbove4 =>
           g = [w |-> d[4], h |-> d[3], c |-> d[2], single |-> (d[2] = 1)]

\* A rank-1 run after a run that had derived a 3-channel geometry.
ResetAfterEarlierGeometry ==
  /\ RankBelow2
  /\ ActualShape = <<2>>
  /\ Geometry(lastCall.p) = [w |-> 2, h |-> 1, c |-> 3, single |-> FALSE]
  /\ Geometry(inferenceProcessor) = [w |-> 64, h |-> 32, c |-> 1, single |-> TRUE]

\* C22, as the specification states it: a successful run that returns a
\* shape of rank other than 2, 3 or 4 leaves width, height and channel count
\* as they were, and defaults them to the input size and 1 channel only when
\* no earlier run had derived a geometry.
OtherRanksKeepGeometry ==
  (RankBelow2 \/ RankAbove4) =>
    LET g == Geometry(inferenceProcessor)
        b == Geometry(lastCall.p)
    IN  IF b.c # 0
          THEN g.w = b.w /\ g.h = b.h /\ g.c = b.c
          ELSE g.w = inferenceProcessor.width /\ g.h = inferenceProcessor.height
               /\ g.c = 1

\* C23, as the specification states it: in every state of the processor and
\* of the operator, the initial one included, the single-channel flag is set
\* exactly when the output channel count is 1.
SingleChannelIffOneChannel ==
  /\ inferenceProcessor.isSingleChannel <=> (inferenceProcessor.outputChannels = 1)
  /\ op.isSingleChannel <=> (op.outputChannelCount = 1)

(***************************************************************************)
(* Properties of the operator's error handling, checked under Spec.        *)
(***************************************************************************)
\* The step is a knob_changed("model_path" or "reload_model") whose
\* loadModel() threw.
KnobLoadFailed ==
  lastEvent'.name \in {"model_path", "reload_model"} /\ lastEvent'.exc # "none"

\* The step is a _validate whose loadModel() threw: loadModel() and the
\* catch in _validate each made a report.
ValidateLoadFailed == lastEvent'.name = "validate" /\ lastEvent'.errors >= 2

FlagsKept ==
  /\ op'.cacheValid = op.cacheValid
  /\ op'.processingDone = op.processingDone
  /\ op'.dimensionsSet = op.dimensionsSet

\* C24, as the specification states it: every failure of the operator's
\* model load (empty path, engine load failure, model without inputs), from
\* the path knob, the reload button or validate, is reported to the
\* diagnostic sink and thrown on to that caller, which then does not reset
\* the cache and dimension flags.
LoadFailuresReported ==
  [][/\ KnobLoadFailed => (lastEvent'.errors >= 1 /\ FlagsKept)
     /\ ValidateLoadFailed => FlagsKept]_vars

\* C25, as the specification states it: no callback the host invokes (row
\* fetch, validate, reopen, configuration change) lets an exception escape
\* to the host, and a fetch that meets a failure hands over the
\* pass-through row.
NoExceptionReachesHost ==
  /\ lastEvent.exc = "none"
  /\ lastEvent.name = "fallback" => lastEvent.row = PassThrough

(***************************************************************************)
(* Properties of the normalization bounds, checked under SpecBounds.       *)
(***************************************************************************)
BoundsOf(o) == <<o.minValue, o.maxValue>>

\* The step is the end of thread t's cacheAndProcessImage() and what
\* follows it up to the end of the try block or of a catch clause.
FillEnds(t) == fetch[t].pc = "run" /\ fetch'[t].pc = "commit"

\* C26: the bounds are computed once per successful fill when normalization
\* is on, by the filling thread inside its critical section and while no
\* other fetch of the cycle is past the cache check; they stay as they were
\* when normalization is off or the fill fails, and no other step of a
\* fetch or of a callback writes them.
BoundsComputedPerFill ==
  [][/\ \A t \in Threads :
          FillEnds(t) =>
            /\ cacheLock = t /\ cacheLock' = t
            /\ \A u \in Threads \ {t} :
                  fetch[u].stale \/ fetch[u].pc \in {"idle", "wait"}
            /\ IF fetch'[t].processing_succeeded /\ op.normalize
                 THEN BoundsOf(op') = BoundsOf(findMinMaxValues(op'))
                 ELSE BoundsOf(op') = BoundsOf(op)
     /\ BoundsOf(op') # BoundsOf(op) =>
          \E t \in Threads :
             FillEnds(t) /\ fetch'[t].processing_succeeded /\ op.normalize]_vars

\* C26's case: a fill with normalization on has computed bounds 1 and 4
\* from its output and still holds the lock, while the other thread waits.
BoundsComputedInsideFill ==
  \E t \in Threads :
     /\ fetch[t].pc = "commit" /\ fetch[t].processing_succeeded
     /\ cacheLock = t
     /\ op.normalize
     /\ op.processedData = <<3, 1, 4, 1>>
     /\ BoundsOf(op) = <<1, 4>>
     /\ \E u \in Threads \ {t} : fetch[u].pc = "wait" /\ ~fetch[u].stale

(***************************************************************************)
(* Properties of the tensor utilities, checked under SpecTensor.           *)
(***************************************************************************)
Applying(f) == lastCall.op = f

\* The finite samples the scan of the last call looks at: the whole buffer,
\* or the planes that start inside it.
Scanned ==
  LET a == lastCall.arg
      n == Len(a.tensorData)
  IN  {a.tensorData[i] :
         i \in {k \in 1..n :
                  /\ IsFinite(a.tensorData[k])
                  /\ Applying("findMinMaxMultiChannel") =>
                       /\ a.width > 0 /\ a.height > 0
                       /\ \E c \in 0..(a.channelCount - 1) :
                             /\ c * a.width * a.height < n
                             /\ k - 1 >= c * a.width * a.height
                             /\ k - 1 < (c + 1) * a.width * a.height}}

\* C27, as the specification states it: both scans return min < max; with
\* no finite sample (0, 1); with all finite samples equal to v, (0, 1) in
\* single-channel mode and (v, v + 1) in multi-channel mode; otherwise the
\* smallest and the largest finite sample.
ScanBoundsOrdered ==
  (Applying("findMinMax") \/ Applying("findMinMaxMultiChannel")) =>
    LET b == lastCall.out
        S == Scanned
    IN  /\ b.min < b.max
        /\ S = {} => b = [min |-> 0, max |-> 1]
        /\ \A v \in S :
              S = {v} => b = IF Applying("findMinMax") THEN [min |-> 0, max |-> 1]
                             ELSE [min |-> v, max |-> v + 1]
        /\ Cardinality(S) > 1 => b = [min |-> SetMin(S), max |-> SetMax(S)]

\* a <= b for two fractions.
FracLeq(a, b) == a.num * b.den <= b.num * a.den

\* a < b as floats compare: never with a NaN.
FloatLess(a, b) == a # NaN /\ b # NaN /\ a < b

\* C28, as the code has it: for a finite v and finite bounds min < max,
\* normalize is non-decreasing in v, lies in [0, 1], is 0 for v <= min, 1 for
\* v >= max and (v - min) / (max - min) in between; for a NaN or infinite v,
\* for min >= max and for a NaN or infinite bound it is 0.5.
NormalizeOfFiniteValue ==
  Applying("normalize") =>
    LET a == lastCall.arg
        r == lastCall.out
    IN  IF IsFinite(a.value) /\ IsFinite(a.min) /\ IsFinite(a.max) /\ a.min < a.max
          THEN /\ FracLeq(Frac(0, 1), r) /\ FracLeq(r, Frac(1, 1))
               /\ a.value <= a.min => r = Frac(0, 1)
               /\ a.value >= a.max => r = Frac(1, 1)
               /\ r.num * (a.max - a.min)
                    = (Max(a.min, Min(a.max, a.value)) - a.min) * r.den
               /\ \A v \in (-2)..6 :
                     /\ v <= a.value => FracLeq(normalize(v, a.min, a.max), r)
                     /\ v >= a.value => FracLeq(r, normalize(v, a.min, a.max))
          ELSE r = Frac(1, 2)

\* normalize(2, 1, 4) is 1/3.
NormalizedInsideRange ==
  /\ Applying("normalize")
  /\ lastCall.arg = [value |-> 2, min |-> 1, max |-> 4]
  /\ lastCall.out = [num |-> 1, den |-> 3]

\* C28, as the specification states it: with min < max, for every v,
\* normalize is non-decreasing in v, lies in [0, 1], is 0 at v = min and 1 at
\* v = max, and a v outside [min, max] gives the value of the nearer end;
\* with min >= max it is 0.5.
NormalizeOfEveryValue ==
  Applying("normalize") =>
    LET a == lastCall.arg
        r == lastCall.out
    IN  IF FloatLess(a.min, a.max)
          THEN /\ FracLeq(Frac(0, 1), r) /\ FracLeq(r, Frac(1, 1))
               /\ a.value = a.min => r = Frac(0, 1)
               /\ a.value = a.max => r = Frac(1, 1)
               /\ FloatLess(a.value, a.min) => r = Frac(0, 1)
               /\ FloatLess(a.max, a.value) => r = Frac(1, 1)
               /\ \A v \in {-1, 0, 1, 2, 3, 4, 5, PosInf, NegInf} :
                     /\ FloatLess(v, a.value) =>
                          FracLeq(normalize(v, a.min, a.max), r)
                     /\ FloatLess(a.value, v) =>
                          FracLeq(r, normalize(v, a.min, a.max))
          ELSE (a.min # NaN /\ a.max # NaN) => r = Frac(1, 2)

\* The arguments of the last getTensorValue call pass its parameter checks.
ReadInRange ==
  LET a == lastCall.arg
  IN  /\ a.tensorData # << >> /\ a.width > 0 /\ a.height > 0
      /\ a.x >= 0 /\ a.x < a.width /\ a.y >= 0 /\ a.y < a.height
      /\ a.channelIdx >= 0

\* C29, as the specification states it: getTensorValue returns 0.0 for an
\* empty buffer, a non-positive width or height, (x, y) out of range or a
\* negative channel index; otherwise it reads element y*width + x
\* (single-channel) or channelIdx*height*width + y*width + x (multi-channel)
\* when that index lies inside the buffer and returns 0.0 without reading
\* when it does not; for no arguments does it read outside the buffer.
ReadsInsideBuffer ==
  Applying("getTensorValue") =>
    LET a == lastCall.arg
        r == lastCall.out
        n == Len(a.tensorData)
    IN  /\ r.exc = NoExc
        /\ r.read >= -1 /\ r.read < n
        /\ ~ReadInRange => (r.read = -1 /\ r.value = Frac(0, 1))
        /\ ReadInRange =>
             \A i \in 0..(n - 1) :
                (i = IF a.isSingleChannel THEN a.y * a.width + a.x
                     ELSE a.channelIdx * a.height * a.width + a.y * a.width + a.x)
                  <=> r.read = i
        /\ r.read = -1 => r.value = Frac(0, 1)

(***************************************************************************)
(* Properties of the rows handed to the host, checked under SpecRow.       *)
(***************************************************************************)
OutsideOutput(y) == y < 0 \/ y >= op.outputHeight

\* C30: a fetch of a row y outside [0, outputHeight) hands over the
\* pass-through row (the input row, erased when input 0 is absent) for the
\* whole request and reads no tensor value; and processTensorDataToRow,
\* called for such a row, copies the whole span [x, r) of every requested
\* channel from the input row and calls getTensorValue for no pixel.
RowOutsideOutputIsInput ==
  [][\A t \in Threads :
       /\ (fetch[t].pc = "post" /\ fetch'[t].pc # "post"
             /\ OutsideOutput(fetch[t].y)) =>
            /\ lastEvent' = RowEvent("fallback", PassThrough)
            /\ cycle'.reads = cycle.reads
            /\ lastCall' = lastCall
       /\ (fetch[t].pc = "map" /\ fetch'[t].pc # "map"
             /\ OutsideOutput(fetch[t].y)) =>
            /\ lastCall'.out.exc = NoExc
            /\ lastCall'.out.calls = {}
            /\ lastCall'.out.row = lastCall'.arg.inputRow]_vars

\* C30's case: the mapping was called for row 0 after a reload had left
\* the declared output height, and the 3-pixel span of both channels holds
\* the input row.
MappedRowOutsideOutput ==
  /\ lastCall.op = "processTensorDataToRow"
  /\ lastEvent.name = "mapped"
  /\ lastCall.arg.y = 0 /\ lastCall.arg.r = 3
  /\ OutsideOutput(0)
  /\ input0
  /\ \A z \in lastCall.arg.channels :
        lastCall.out.row[z] =
          [i \in 0..2 |-> IF z.chan = "Chan_Z" THEN Frac(0, 1) ELSE Frac(50 + i, 1)]

(***************************************************************************)
(* Properties of the tensor-to-row mapping, checked under SpecTensor.      *)
(***************************************************************************)
IsStandard(z) == z.chan \in {"Chan_Red", "Chan_Green", "Chan_Blue", "Chan_Alpha"}

\* The plane a standard channel stands for.
FixedIndex(z) ==
  CASE z.chan = "Chan_Red" -> 0
    [] z.chan = "Chan_Green" -> 1
    [] z.chan = "Chan_Blue" -> 2
    [] z.chan = "Chan_Alpha" -> 3

\* Channel z of the last call resolves to no valid tensor plane.
Unresolved(z) ==
  LET a == lastCall.arg
  IN  IF ~IsStandard(z)
        THEN getChannelComponentIndex(z.name) \notin 0..(a.channelCount - 1)
      ELSE IF a.isSingleChannel THEN z.chan # "Chan_Red"
      ELSE FixedIndex(z) >= a.channelCount

\* The pixels of channel z the last call computed: [x, min(r, outputWidth)).
Computed(z) ==
  LET a == lastCall.arg
  IN  {i \in a.x..(a.r - 1) : i < a.outputWidth}

ZeroFilled(z) == \A i \in Computed(z) : lastCall.out.row[z][i] = Frac(0, 1)

CopiedFromInput(z) ==
  \A i \in Computed(z) : lastCall.out.row[z][i] = lastCall.arg.inputRow[z][i]

\* C31, amended: a requested channel that resolves to no valid tensor plane
\* is zero-filled when it is green or blue in single-channel mode and when
\* it is a custom-named channel (its name resolves to no plane or to an
\* index >= channelCount); it is copied from the input row when it is alpha
\* in single-channel mode or a standard channel whose fixed index is
\* >= channelCount in multi-channel mode.
UnresolvedChannelFilled ==
  Applying("processTensorDataToRow") =>
    \A z \in lastCall.arg.channels :
       Unresolved(z) =>
         IF ~IsStandard(z) THEN ZeroFilled(z)
         ELSE IF lastCall.arg.isSingleChannel /\ z.chan \in {"Chan_Green", "Chan_Blue"}
           THEN ZeroFilled(z)
         ELSE CopiedFromInput(z)

\* C31's case: a custom channel whose name resolves to no plane was mapped
\* beside three planes, and its two pixels are zero although the input row
\* holds 50 and 51.
CustomChannelCleared ==
  /\ Applying("processTensorDataToRow")
  /\ lastCall.arg.channelCount = 3
  /\ lastCall.arg.x = 0
  /\ \E z \in lastCall.arg.channels :
        /\ z.name = <<"mask", "foo">>
        /\ Unresolved(z)
        /\ lastCall.arg.inputRow[z][0] = Frac(50, 1)
        /\ lastCall.out.row[z][0] = Frac(0, 1)
        /\ lastCall.out.row[z][1] = Frac(0, 1)

\* C31 as the specification states it: zero-filled only for green and blue
\* in single-channel mode, copied from the input row in every other case.
UnresolvedChannelCopied ==
  Applying("processTensorDataToRow") =>
    \A z \in lastCall.arg.channels :
       Unresolved(z) =>
         IF lastCall.arg.isSingleChannel /\ z.chan \in {"Chan_Green", "Chan_Blue"}
           THEN ZeroFilled(z)
         ELSE CopiedFromInput(z)

\* The plane the specification gives channel z: the fixed index of a
\* standard channel, the synonym set holding the part of a custom name
\* after its last dot; -1 when there is none.
Synonyms ==
  <<{"red", "r", "x"}, {"green", "g", "y"}, {"blue", "b", "z"}, {"alpha", "a", "w"}>>

PlaneOf(z) ==
  IF IsStandard(z) THEN FixedIndex(z)
  ELSE IF Len(z.name) < 2 THEN -1
  ELSE IF \E k \in 1..4 : z.name[Len(z.name)] \in Synonyms[k]
    THEN (CHOOSE k \in 1..4 : z.name[Len(z.name)] \in Synonyms[k]) - 1
  ELSE -1

\* Sample (i, y) of plane k of the last call's buffer, as the row shows it.
PlaneSample(k, i) ==
  LET a == lastCall.arg
      v == a.tensorData[k * a.outputHeight * a.outputWidth + a.y * a.outputWidth + i + 1]
  IN  IF a.normalize THEN normalize(v, a.minValue, a.maxValue) ELSE Frac(v, 1)

\* C32: a requested channel is filled from the plane PlaneOf gives it when
\* that index is < channelCount, and no tensor value is read for it
\* otherwise.
ChannelMappedByComponent ==
  Applying("processTensorDataToRow") =>
    \A z \in lastCall.arg.channels : \A i \in Computed(z) :
       IF PlaneOf(z) >= 0 /\ PlaneOf(z) < lastCall.arg.channelCount
         THEN /\ <<z, i>> \in lastCall.out.calls
              /\ lastCall.out.row[z][i] = PlaneSample(PlaneOf(z), i)
         ELSE <<z, i>> \notin lastCall.out.calls

\* C32's case: the custom channel layer.u.b was mapped from an output of
\* three planes and shows plane 2 (30, 31).
CustomChannelReadPlane ==
  /\ Applying("processTensorDataToRow")
  /\ lastCall.arg.channelCount = 3 /\ ~lastCall.arg.normalize
  /\ lastCall.arg.x = 0
  /\ \E z \in lastCall.arg.channels :
        /\ z.name = <<"layer", "u", "b">>
        /\ lastCall.out.row[z][0] = Frac(30, 1)
        /\ lastCall.out.row[z][1] = Frac(31, 1)

(***************************************************************************)
(* Properties of the image-to-tensor conversion, checked under SpecTensor. *)
(***************************************************************************)
SemanticChannel(c) == <<"Chan_Red", "Chan_Green", "Chan_Blue", "Chan_Alpha">>[c + 1]

\* C33: tileToNCHWTensor fails with PreprocessException when width, height
\* or the channel count is <= 0; otherwise the buffer has exactly
\* channels * height * width elements, element c*height*width + h*width + w
\* is the source pixel of channel c at (h + yOffset, w + xOffset) for every
\* c < min(channels, 4) the source carries (and every row the source has),
\* zero for a channel the source lacks, and what the vector held (zero
\* beyond its old end) for the planes c >= 4.
RegionBecomesNCHW ==
  Applying("tileToNCHWTensor") =>
    LET a == lastCall.arg
        out == lastCall.out
        element(c, h, w) == c * a.height * a.width + h * a.width + w + 1
    IN  IF a.width <= 0 \/ a.height <= 0 \/ a.channels <= 0
          THEN out.exc.kind = "PreprocessException"
          ELSE /\ out.exc = NoExc
               /\ Len(out.tensor) = a.channels * a.height * a.width
               /\ \A c \in 0..(a.channels - 1), h \in 0..(a.height - 1),
                     w \in 0..(a.width - 1) :
                    LET k == element(c, h, w)
                    IN  IF c >= 4
                          THEN out.tensor[k] =
                                 IF k <= Len(a.tensor) THEN a.tensor[k] ELSE 0
                        ELSE IF SemanticChannel(c) \notin a.tile.channels
                          THEN out.tensor[k] = 0
                        ELSE (h + a.tile.box.y) \notin a.tile.nullRows =>
                               out.tensor[k] =
                                 a.tile.pixel[SemanticChannel(c)][h + a.tile.box.y]
                                                                 [w + a.tile.box.x]

\* C33's case: a 2 x 2 region at (1, 2) that carries red and blue was
\* converted into three planes: red and blue hold the pixels from (2, 1)
\* on, green is zero.
ConvertedRegionAtOffset ==
  /\ Applying("tileToNCHWTensor")
  /\ lastCall.arg.width = 2 /\ lastCall.arg.height = 2 /\ lastCall.arg.channels = 3
  /\ lastCall.arg.tile.box.x = 1 /\ lastCall.arg.tile.box.y = 2
  /\ lastCall.arg.tile.nullRows = {}
  /\ lastCall.arg.tile.channels = {"Chan_Red", "Chan_Blue"}
  /\ lastCall.out.tensor = <<121, 122, 131, 132, 0, 0, 0, 0, 321, 322, 331, 332>>

(***************************************************************************)
(* Properties of the cache lock, checked under SpecFair.                   *)
(***************************************************************************)
InCriticalSection(t) == fetch[t].pc \in {"inputs", "run", "commit"}

\* C34: the lock is held only by a fetch inside the critical section (a
\* fetch that left it, by a successful or a failed fill, holds it no
\* longer), and every fetch waiting for the lock returns.
LockAlwaysReleased ==
  /\ [](\A t \in Threads : cacheLock = t <=> InCriticalSection(t))
  /\ \A t \in Threads : (fetch[t].pc = "wait") ~> (fetch[t].pc = "idle")

\* C34's case: a fill failed and its fetch left the critical section, the
\* lock is free, and another fetch waits for it.
FailedFillReleasedLock ==
  \E t \in Threads :
     /\ fetch[t].pc = "post" /\ fetch[t].filled /\ ~fetch[t].processing_succeeded
     /\ cacheLock = 0
     /\ \E u \in Threads \ {t} : fetch[u].pc = "wait"

(***************************************************************************)
(* Properties of the operator's cache and inputs, checked under Spec.      *)
(***************************************************************************)
\* C35, as the specification states it: while the model is loaded and both
\* _cacheValid and _processingDone are set, the buffer is not empty and is
\* the output of the fill of the current cycle.
ValidCacheHoldsOutput ==
  (isLoaded(modelManager) /\ op.cacheValid /\ op.processingDone) =>
    /\ op.processedData # << >>
    /\ cycle.clean => (cycle.fill = "ok" /\ op.processedData = cycle.out)

(***************************************************************************)
(* Properties of the multi-input binding, checked under SpecHandle.        *)
(***************************************************************************)
\* C36, as the claim states it: when the multi-input run reaches
\* Session::Run, no declared input name is bound to two supplied inputs.
BoundNamesDistinct ==
  (MultiInputCalled /\ lastCall.ran) =>
     \A i, j \in 1..Len(lastCall.bound) :
        i # j => lastCall.bound[i] # lastCall.bound[j]

(*****************************************************************************)
(* Properties of the active inputs, checked under SpecInputs.                *)
(*****************************************************************************)

\* The slots the processor holds that runInference would pass on.
ValidSlotCount ==
  Cardinality({i \in 1..Len(inferenceProcessor.inputTensors) :
                 inferenceProcessor.inputTensors[i].valid})

\* C37: the active-input count is always between 1 and maximum_inputs; with
\* a model loaded it is min(declared inputs, maximum_inputs); and a fill of
\* the current cycle that has prepared its inputs holds as many slots as
\* that, no more than the model declares, and passes on no more names.
ActiveInputsFollowModel ==
  /\ op.activeInputs \in 1..maximum_inputs
  /\ isLoaded(modelManager) =>
       op.activeInputs = Min(getInputCount(modelManager), maximum_inputs)
  /\ \A t \in Threads :
        (fetch[t].pc = "run" /\ ~fetch[t].stale /\ isLoaded(modelManager)) =>
          /\ Len(inferenceProcessor.inputTensors) = op.activeInputs
          /\ Len(inferenceProcessor.inputTensors) <= getInputCount(modelManager)
          /\ ValidSlotCount <= getInputCount(modelManager)

\* C37's case: a fill has prepared its inputs for a model that declares 11
\* inputs: 10 slots, two of them valid.
FillOfElevenInputModel ==
  /\ getInputCount(modelManager) = 11
  /\ op.activeInputs = 10
  /\ fetch[1].pc = "run" /\ ~fetch[1].stale
  /\ Len(inferenceProcessor.inputTensors) = 10
  /\ ValidSlotCount = 2

(*****************************************************************************)
(* Properties of the written span, checked under SpecTensor.                 *)
(*****************************************************************************)

\* C38, as the specification states it: for a row inside the output the
\* mapping writes every pixel of [x, r) of every requested channel, with a
\* tensor value, zero or the input value, the pixels from outputWidth on
\* included.
WholeSpanWritten ==
  (Applying("processTensorDataToRow") /\ lastCall.arg.y >= 0
     /\ lastCall.arg.y < lastCall.arg.outputHeight) =>
    \A z \in lastCall.arg.channels : \A i \in lastCall.arg.x..(lastCall.arg.r - 1) :
       \/ <<z, i>> \in lastCall.out.calls
       \/ lastCall.out.row[z][i] = Frac(0, 1)
       \/ lastCall.out.row[z][i] = lastCall.arg.inputRow[z][i]

(***************************************************************************)
(* Properties of failed runs and failed fills, checked under SpecInputs.   *)
(***************************************************************************)
OperatorGeometry(o) ==
  [w |-> o.outputWidth, h |-> o.outputHeight, c |-> o.outputChannelCount,
   single |-> o.isSingleChannel]

\* A processor runInference call in the current state, whatever the engine
\* does, leaves the geometry and the slots alone when it throws.
FailedRunKeepsProcessor ==
  \A r \in InputsRuns :
     LET res == processorRunInference(inferenceProcessor, modelManager, << >>, r)
     IN  res.exc.kind \in {"ConfigurationException", "InferenceException"} =>
           /\ Geometry(res.p) = Geometry(inferenceProcessor)
           /\ res.p.inputTensors = inferenceProcessor.inputTensors

\* The step of a fetch that ends a fill whose second part failed.
FillRunFails(t) ==
  fetch[t].pc = "run" /\ fetch'[t].pc = "commit" /\ ~fetch'[t].processing_succeeded

\* C39: a processor runInference call that fails leaves the processor's
\* output geometry and its input slots unchanged; a fill that fails leaves
\* the operator's output geometry unchanged and its buffer empty, and no
\* fetch of the cycle of a failed fill maps a row from the buffer.
FailedRunLeavesNoTrace ==
  /\ []FailedRunKeepsProcessor
  /\ [][\A t \in Threads :
          FillRunFails(t) =>
            /\ inferenceProcessor'.inputTensors = inferenceProcessor.inputTensors
            /\ OperatorGeometry(op') = OperatorGeometry(op)
            /\ op'.processedData = << >>]_vars
  /\ [](cycle.fill = "failed" =>
          /\ cycle.reads = {}
          /\ \A t \in Threads : Fresh(t) => fetch[t].pc # "map")

\* C39's case: Session::Run threw in the fill of a model with two inputs,
\* both slots are still valid, and a fetch of the cycle returned the input
\* row.
FetchAfterFailedRun ==
  /\ cycle.fill = "failed" /\ cycle.runs > 0
  /\ getInputCount(modelManager) = 2 /\ ValidSlotCount = 2
  /\ op.outputWidth = 2 /\ op.processedData = << >>
  /\ ~op.processingDone /\ op.cacheValid
  /\ lastEvent = RowEvent("fallback", PassThrough)

=============================================================================
